---- MODULE Spec2Model ----
(***************************************************************************)
(* Audit control plane of the web-audit service: the job registry          *)
(* (JobStore), the concurrency limiter (ConcurrencyManager), the persistent *)
(* overflow queue (PersistentQueue), the dispatcher routes (create_audit,   *)
(* run_audit_job, process_next_queued_job, cancel_audit, get_audit_status), *)
(* the URL singleflight locks and the browser pool.                         *)
(***************************************************************************)
EXTENDS Integers, Sequences, FiniteSets, TLC

\* ---------------------------------------------------------------- bounds
\* number of job ids (uuid4 values) the dispatcher may mint
MaxJobs == 3
\* MAX_CONCURRENT_AUDITS of the modelled deployment
MaxConcurrent == 1
\* MAX_QUEUE_SIZE of the modelled deployment
MaxQueueSize == 1
\* seconds the queue's CURRENT_TIMESTAMP clock may advance
MaxClock == 1
\* number of job ids the registry-only specification may mint
MaxRegistryJobs == 6
\* number of rows the queue-only specification may insert
MaxQueueRows == 3
\* max_size of the queue when it is used on its own
QueueMaxSize == 2
\* CircuitBreakerConfig of the modelled breaker
FailureThreshold == 2
RecoveryTimeout == 2
HalfOpenMaxCalls == 2
SuccessThreshold == 2
\* failures recorded in a row before the model stops recording more
MaxFailures == 4
\* seconds of time.time() the breaker is followed over: two recovery periods
MaxBreakerClock == 2 * RecoveryTimeout
\* concurrency limit of the limiter-only specification
LimiterMax == 3
\* BROWSER_POOL_SIZE of the modelled deployment
PoolSize == 2
\* number of run_audit_async invocations of the singleflight specification
MaxInv == 3
\* number of asyncio.Lock objects get_url_lock may create
MaxLocks == 2
\* number of coroutines that enter BrowserPool.acquire
MaxScopes == 3
\* number of browsers the pool may launch
MaxInstances == 3
\* number of asyncio.Semaphore objects initialize may create
MaxSemaphores == 2
\* how far around each threshold the percentiles of the metrics are taken
MaxDelta == 2
\* number of WebSocket objects that subscribe
MaxSinks == 3
\* number of events the registry emits
MaxEvents == 2
\* _enqueue_async makes at most one _process_broadcasts task per event
MaxTasks == MaxEvents
\* CACHE_TTL_SECONDS of the modelled deployment
CacheTtl == 2
\* seconds of time.time() the result cache is followed over: two lifetimes
MaxCacheClock == 2 * CacheTtl

\* ------------------------------------------------------ program constants
\* JobStore.max_jobs_per_ip
max_jobs_per_ip == 5

\* largest value the limiter's semaphore may reach through release_async
SemaphoreCeiling == LimiterMax + 1

IPs == {"ip1", "ip2"}
URLs == {"u1", "u2"}
InvIds == 1..MaxInv
LockIds == 1..MaxLocks
JobIds == 1..MaxJobs

PENDING == "pending"
QUEUED == "queued"
RUNNING == "running"
COMPLETED == "completed"
FAILED == "failed"
JobStatus == {PENDING, QUEUED, RUNNING, COMPLETED, FAILED}

\* absent key of JobStore.jobs (dict.get returns None)
NoJob == [status |-> "none", queue_position |-> 0, error |-> "", old |-> FALSE]

VARIABLES
    config,        \* Config: [max_concurrent, max_queue_size, pool_size]
    job_store,     \* JobStore: [jobs : id -> Job or NoJob, ip_limits : ip -> set of ids]
    next_job,      \* number of job ids minted so far (uuid4 never repeats)
    active_count,  \* ConcurrencyManager._active_count
    semaphore,     \* value of ConcurrencyManager._semaphore
    queue,         \* audit_queue table: [rows : set of rows, seq : AUTOINCREMENT counter]
    clock,         \* CURRENT_TIMESTAMP of the queue database, in seconds
    worker,        \* run_audit_job task of each job id: its position
    response,      \* last HTTP answer: [op, job, code, status, position]
    pool_semaphore,\* value of BrowserPool._semaphore
    url_locks,     \* _url_locks: [locks : url -> Lock id or 0, objs : Lock id -> asyncio.Lock, seq]
    cache,         \* cache table: url -> stored report (0 when absent)
    inv,           \* run_audit_async invocations: position and locals of each
    released_foreign, \* release_url_lock released a Lock another invocation holds
    breaker,       \* a CircuitBreaker: its fields, the time and its last call
    cache_db,      \* the cache database: its table, the time, the calls made and the last call
    run,           \* one run_audit_async invocation: its position, locals and outcome
    browser_pool,  \* the BrowserPool: its fields, its instances and the acquire scopes
    ws,            \* the WebSocketManager, the event loop's ready queue and the sinks
    rated,         \* the last two CrUX metrics parsed: metric, percentile and rating
    field,         \* the CrUX stage of an audit: its position, requests and error
    stages         \* one job's run_audit_job: its stages and the events emitted

vars == <<config, job_store, next_job, active_count, semaphore, queue, clock, worker, response,
          pool_semaphore, url_locks, cache, inv, released_foreign, breaker, cache_db, run,
          browser_pool, ws, rated, field, stages>>

lockVars == <<url_locks, cache, inv, released_foreign>>

\* the services beside the dispatcher
besideBreaker == <<cache_db, run, browser_pool, ws, rated, field, stages>>
serviceVars == <<breaker, besideBreaker>>

\* the control plane, the URL locks and the breaker
coreVars == <<config, job_store, next_job, active_count, semaphore, queue, clock, worker,
              response, pool_semaphore, url_locks, cache, inv, released_foreign, breaker>>

\* ---------------------------------------------------------------- JobStore
NewJob == [status |-> PENDING, queue_position |-> 0, error |-> "", old |-> FALSE]

Discard(ip_limits, id) == [ip \in IPs |-> ip_limits[ip] \ {id}]

\* create_job: the minted id is next; returns the store and whether a job was made
create_job_quota_off_by_one(s, id, client_ip) ==
    IF Cardinality(s.ip_limits[client_ip]) > max_jobs_per_ip
    THEN [store |-> s, ok |-> FALSE]
    ELSE [store |-> [jobs |-> [s.jobs EXCEPT ![id] = NewJob],
                     ip_limits |-> [s.ip_limits EXCEPT ![client_ip] = @ \cup {id}]],
          ok |-> TRUE]

create_job(s, id, client_ip) ==
    IF Cardinality(s.ip_limits[client_ip]) >= max_jobs_per_ip
    THEN [store |-> s, ok |-> FALSE]
    ELSE [store |-> [jobs |-> [s.jobs EXCEPT ![id] = NewJob],
                     ip_limits |-> [s.ip_limits EXCEPT ![client_ip] = @ \cup {id}]],
          ok |-> TRUE]

get_job(s, id) == s.jobs[id]

Exists(s, id) == s.jobs[id].status # "none"

update_stage(s, id) ==
    IF Exists(s, id)
    THEN [s EXCEPT !.jobs[id].status = RUNNING]
    ELSE s

complete_job(s, id) ==
    IF Exists(s, id)
    THEN [jobs |-> [s.jobs EXCEPT ![id].status = COMPLETED],
          ip_limits |-> Discard(s.ip_limits, id)]
    ELSE s

fail_job(s, id) ==
    IF Exists(s, id)
    THEN [jobs |-> [s.jobs EXCEPT ![id].status = FAILED, ![id].error = "error"],
          ip_limits |-> Discard(s.ip_limits, id)]
    ELSE s

\* an update that never records the error text
update_job_status_and_position_drops_error(s, id, status, queue_position, error) ==
    IF Exists(s, id)
    THEN [s EXCEPT !.jobs[id].status = status,
                   !.jobs[id].queue_position = queue_position]
    ELSE s

\* error = "" stands for the default None (job.error is left alone)
update_job_status_and_position(s, id, status, queue_position, error) ==
    IF Exists(s, id)
    THEN [s EXCEPT !.jobs[id].status = status,
                   !.jobs[id].queue_position = queue_position,
                   !.jobs[id].error = IF error # "" THEN error ELSE @]
    ELSE s

remove_job(s, id) ==
    [jobs |-> [s.jobs EXCEPT ![id] = NoJob],
     ip_limits |-> Discard(s.ip_limits, id)]

update_queue_position(s, id, queue_position) ==
    IF Exists(s, id)
    THEN [s EXCEPT !.jobs[id].queue_position = queue_position]
    ELSE s

\* a job is expired when created_at < now - 24 h; old records that 24 h have
\* passed since the job was created
Expired(s) == {id \in DOMAIN s.jobs : Exists(s, id) /\ s.jobs[id].old}

cleanup_expired(s) ==
    [jobs |-> [id \in DOMAIN s.jobs |-> IF id \in Expired(s) THEN NoJob ELSE s.jobs[id]],
     ip_limits |-> [ip \in IPs |-> s.ip_limits[ip] \ Expired(s)]]

\* ------------------------------------------------------ ConcurrencyManager
\* a try_acquire that grants a slot whatever the count
try_acquire_unlimited(count, max) == [count |-> count + 1, ok |-> TRUE]

\* try_acquire: [count, ok]
try_acquire(count, max) ==
    IF count >= max
    THEN [count |-> count, ok |-> FALSE]
    ELSE [count |-> count + 1, ok |-> TRUE]

release(count) == IF count > 0 THEN count - 1 ELSE count

\* ---------------------------------------------------------- PersistentQueue
Rows(q, status) == {r \in q.rows : r.status = status}

PendingCount(q) == Cardinality(Rows(q, "pending"))

HasRow(q, job_id) == \E r \in q.rows : r.job_id = job_id

\* an enqueue that reports a position without inserting the row
enqueue_without_insert(q, job_id, now, max_size) ==
    IF PendingCount(q) >= max_size
    THEN [queue |-> q, position |-> 0]
    ELSE [queue |-> q, position |-> PendingCount(q) + 1]

\* enqueue: [queue, position]; position 0 stands for None
enqueue(q, job_id, now, max_size) ==
    IF PendingCount(q) >= max_size
    THEN [queue |-> q, position |-> 0]
    ELSE [queue |-> [rows |-> q.rows \cup {[id |-> q.seq + 1, job_id |-> job_id,
                                             status |-> "pending", created_at |-> now]},
                     seq |-> q.seq + 1],
          position |-> PendingCount(q) + 1]

\* the row SELECT ... WHERE status = 'pending' ORDER BY created_at ASC LIMIT 1
\* returns: SQLite scans idx_queue_status in rowid order and its sorter keeps
\* that order among rows of equal created_at
\* an order that prefers the latest row among rows of equal created_at
Before_latest_among_ties(r1, r2) ==
    \/ r1.created_at < r2.created_at
    \/ r1.created_at = r2.created_at /\ r1.id > r2.id

\* (the database clock does not run backwards, so created_at never decreases
\* with the insertion id)
Before(r1, r2) ==
    \/ r1.created_at < r2.created_at
    \/ r1.created_at = r2.created_at /\ r1.id < r2.id

OldestPending(q) ==
    CHOOSE r \in Rows(q, "pending") : \A o \in Rows(q, "pending") : o = r \/ Before(r, o)

NoRow == [id |-> 0, job_id |-> 0, status |-> "none", created_at |-> 0]

\* dequeue that hands out the pending row enqueued last
dequeue_newest(q) ==
    IF Rows(q, "pending") = {}
    THEN [queue |-> q, row |-> NoRow]
    ELSE LET r == CHOOSE x \in Rows(q, "pending") :
                      \A o \in Rows(q, "pending") : o = x \/ Before(o, x)
         IN [queue |-> [q EXCEPT !.rows = (@ \ {r}) \cup {[r EXCEPT !.status = "processing"]}],
             row |-> [r EXCEPT !.status = "processing"]]

\* dequeue: [queue, row]; row NoRow stands for None
dequeue(q) ==
    IF Rows(q, "pending") = {}
    THEN [queue |-> q, row |-> NoRow]
    ELSE LET r == OldestPending(q)
         IN [queue |-> [q EXCEPT !.rows = (@ \ {r}) \cup {[r EXCEPT !.status = "processing"]}],
             row |-> [r EXCEPT !.status = "processing"]]

\* remove that puts the row back among the pending ones
remove_requeues(q, job_id) ==
    [q EXCEPT !.rows = {IF r.job_id = job_id THEN [r EXCEPT !.status = "pending"] ELSE r :
                           r \in @}]

\* remove: DELETE FROM queue WHERE job_id = ?
remove(q, job_id) == [q EXCEPT !.rows = {r \in @ : r.job_id # job_id}]

\* a cancel that reports success and leaves the row pending
cancel_leaves_row_pending(q, job_id) ==
    [queue |-> q,
     ok |-> \E r \in q.rows : r.job_id = job_id /\ r.status = "pending"]

\* cancel: [queue, ok]
cancel(q, job_id) ==
    [queue |-> [q EXCEPT !.rows = {IF r.job_id = job_id /\ r.status = "pending"
                                   THEN [r EXCEPT !.status = "cancelled"] ELSE r : r \in @}],
     ok |-> \E r \in q.rows : r.job_id = job_id /\ r.status = "pending"]

\* get_position: 0 stands for None
get_position(q, job_id) ==
    IF \E r \in Rows(q, "pending") : r.job_id = job_id
    THEN LET mine == CHOOSE r \in Rows(q, "pending") : r.job_id = job_id
         IN Cardinality({r \in Rows(q, "pending") : r.created_at <= mine.created_at})
    ELSE 0

size(q) == PendingCount(q)

cleanup_stale(q, now, max_age_seconds) ==
    [q EXCEPT !.rows = {r \in @ : ~(r.status \in {"processing", "cancelled"}
                                     /\ r.created_at < now - max_age_seconds)}]

\* a requeue that also revives cancelled rows
requeue_processing_revives_cancelled(q) ==
    [q EXCEPT !.rows = {IF r.status \in {"processing", "cancelled"}
                        THEN [r EXCEPT !.status = "pending"] ELSE r : r \in @}]

requeue_processing(q) ==
    [q EXCEPT !.rows = {IF r.status = "processing" THEN [r EXCEPT !.status = "pending"] ELSE r
                        : r \in @}]

\* ------------------------------------------------------- URL singleflight
\* asyncio.Lock: _locked, the deque of waiters and which waiter's future has
\* been given its result (woken) but has not run yet; holder is the invocation
\* that last set _locked (kept to tell whose lock a release releases)
FreshLock == [locked |-> FALSE, waiters |-> <<>>, woken |-> 0, holder |-> 0]

NoLocks == [locks |-> [u \in URLs |-> 0], objs |-> [l \in LockIds |-> FreshLock], seq |-> 0]

NoInvocation ==
    [pc |-> "idle", url |-> "u1", no_cache |-> FALSE, lock |-> 0, was_first |-> FALSE,
     ran_despite_cache |-> FALSE, result |-> 0]

\* get_url_lock: [state, lock]; creates the Lock when the url has none
get_url_lock(ul, url) ==
    IF ul.locks[url] # 0
    THEN [state |-> ul, lock |-> ul.locks[url]]
    ELSE [state |-> [ul EXCEPT !.locks[url] = ul.seq + 1, !.seq = ul.seq + 1],
          lock |-> ul.seq + 1]

\* Lock.release: clear _locked and give the first waiter's future its result
LockRelease(lk) ==
    [lk EXCEPT !.locked = FALSE, !.holder = 0,
               !.woken = IF lk.waiters # <<>> THEN Head(lk.waiters) ELSE 0]

\* release_url_lock that leaves a Lock somebody waits for as it is
release_url_lock_unless_awaited(ul, url) ==
    IF ul.locks[url] # 0 /\ ul.objs[ul.locks[url]].locked
                         /\ ul.objs[ul.locks[url]].waiters = <<>>
    THEN [ul EXCEPT !.objs[ul.locks[url]] = LockRelease(@)]
    ELSE ul

\* release_url_lock: only a Lock still in the dict and locked is released
release_url_lock(ul, url) ==
    IF ul.locks[url] # 0 /\ ul.objs[ul.locks[url]].locked
    THEN [ul EXCEPT !.objs[ul.locks[url]] = LockRelease(@)]
    ELSE ul

\* the release in run_audit_async's finally block hit a Lock held by another
ReleasesForeign(ul, url, i) ==
    /\ ul.locks[url] # 0
    /\ ul.objs[ul.locks[url]].locked
    /\ ul.objs[ul.locks[url]].holder # i

\* cleanup_url_locks: drop every dict entry whose Lock is not locked
cleanup_url_locks(ul) ==
    [ul EXCEPT !.locks = [u \in URLs |->
                             IF @[u] # 0 /\ ~ul.objs[@[u]].locked THEN 0 ELSE @[u]]]

\* ---------------------------------------------------------- CircuitBreaker
CLOSED == "closed"
OPEN == "open"
HALF_OPEN == "half_open"

BreakerConfig ==
    [failure_threshold |-> FailureThreshold, recovery_timeout |-> RecoveryTimeout,
     half_open_max_calls |-> HalfOpenMaxCalls, success_threshold |-> SuccessThreshold]

\* last_failure_time -1 stands for None; now is time.time(); op and result are
\* the last method called on the breaker and what it returned
NewBreaker ==
    [config |-> BreakerConfig, state |-> CLOSED, failure_count |-> 0, success_count |-> 0, half_open_calls |-> 0,
     last_failure_time |-> -1, now |-> 0, op |-> "none", result |-> "none"]

\* a transition that keeps the success count of the previous half-open period
transition_to_keeps_success_count(b, new_state) ==
    IF new_state = HALF_OPEN
    THEN [b EXCEPT !.state = new_state, !.half_open_calls = 0]
    ELSE IF new_state = CLOSED
    THEN [b EXCEPT !.state = new_state, !.failure_count = 0, !.half_open_calls = 0]
    ELSE [b EXCEPT !.state = new_state]

transition_to(b, new_state) ==
    IF new_state = HALF_OPEN
    THEN [b EXCEPT !.state = new_state, !.half_open_calls = 0, !.success_count = 0]
    ELSE IF new_state = CLOSED
    THEN [b EXCEPT !.state = new_state, !.failure_count = 0, !.half_open_calls = 0]
    ELSE [b EXCEPT !.state = new_state]

\* a check that leaves Open without waiting for recovery_timeout
check_state_transition_without_wait(b) ==
    IF b.state = OPEN /\ b.last_failure_time # -1
    THEN transition_to(b, HALF_OPEN)
    ELSE b

check_state_transition(b) ==
    IF /\ b.state = OPEN
       /\ b.last_failure_time # -1
       /\ b.now - b.last_failure_time >= b.config.recovery_timeout
    THEN transition_to(b, HALF_OPEN)
    ELSE b

\* the state property
state(b) ==
    LET b1 == check_state_transition(b)
    IN [b1 EXCEPT !.op = "state", !.result = b1.state]

can_execute(b) ==
    LET b1 == check_state_transition(b)
    IN IF b1.state = CLOSED
       THEN [b1 EXCEPT !.op = "can_execute", !.result = "true"]
       ELSE IF b1.state = OPEN
       THEN [b1 EXCEPT !.op = "can_execute", !.result = "false"]
       ELSE IF b1.half_open_calls < b1.config.half_open_max_calls
       THEN [b1 EXCEPT !.half_open_calls = @ + 1, !.op = "can_execute", !.result = "true"]
       ELSE [b1 EXCEPT !.op = "can_execute", !.result = "false"]

\* a record_success that leaves the failure count alone
record_success_keeps_failures(b) ==
    LET b1 == [b EXCEPT !.op = "record_success", !.result = "none"]
    IN IF b1.state = HALF_OPEN
       THEN LET b2 == [b1 EXCEPT !.success_count = @ + 1]
            IN IF b2.success_count >= b2.config.success_threshold
               THEN transition_to(b2, CLOSED)
               ELSE b2
       ELSE b1

record_success(b) ==
    LET b1 == [b EXCEPT !.failure_count = 0, !.op = "record_success", !.result = "none"]
    IN IF b1.state = HALF_OPEN
       THEN LET b2 == [b1 EXCEPT !.success_count = @ + 1]
            IN IF b2.success_count >= b2.config.success_threshold
               THEN transition_to(b2, CLOSED)
               ELSE b2
       ELSE b1

record_failure(b) ==
    LET b1 == [b EXCEPT !.failure_count = @ + 1, !.last_failure_time = b.now,
                        !.op = "record_failure", !.result = "none"]
    IN IF b1.state = CLOSED
       THEN IF b1.failure_count >= b1.config.failure_threshold
            THEN transition_to(b1, OPEN)
            ELSE b1
       ELSE IF b1.state = HALF_OPEN
       THEN transition_to(b1, OPEN)
       ELSE b1

reset(b) ==
    [transition_to(b, CLOSED) EXCEPT !.failure_count = 0, !.success_count = 0,
                                     !.half_open_calls = 0, !.op = "reset", !.result = "none"]

\* ------------------------------------------------------------ result cache
\* Status of a report (schemas/common.py)
SUCCESS == "success"
PARTIAL == "partial"

\* the dicts handed to store_result: the dump of an AuditResponse, its status
\* still a Status member; the fields besides status and url are left out
ResultDicts == [status : {"Status.SUCCESS", "Status.PARTIAL"}, url : URLs]

\* return value None of get_cached_result
None == [status |-> "None", url |-> ""]

\* json.dumps writes a str-Enum member as its value, a str as it is
json_value(v) ==
    CASE v = "Status.SUCCESS" -> SUCCESS
      [] v = "Status.PARTIAL" -> PARTIAL
      [] v = "Status.FAILED" -> FAILED
      [] OTHER -> v

\* json.dumps(result): the text, as its tokens
json_dumps(result) ==
    <<"{", "status", ":", json_value(result.status), ",", "url", ":", json_value(result.url), "}">>

\* json.loads(result_json): every value comes back as a plain str
json_loads(result_json) == [status |-> result_json[4], url |-> result_json[8]]

\* Status("success") == "success": a Status member equals its value
SameDict(a, b) ==
    /\ json_value(a.status) = json_value(b.status)
    /\ json_value(a.url) = json_value(b.url)

\* _get_url_hash: the hex digest of the URL, one digest per URL
get_url_hash(url) == "sha256(" \o url \o ")"
UrlHashes == {get_url_hash(url) : url \in URLs}

\* _get_cache_ttl
get_cache_ttl == CacheTtl

\* a primary key without a row
NoCacheRow == [normalized_url |-> "", result_json |-> <<>>, created_at |-> 0, ttl_seconds |-> 0]
EmptyTable == [h \in UrlHashes |-> NoCacheRow]

\* store_result has not been called for the URL since the cache was cleared
NoStore == [result |-> None, at |-> 0 - 1]

\* the database after _init_cache_db, the clock, the stores made so far (what
\* was stored last for each URL, and when) and the last call with its result;
\* cache_initialized is the module's flag, schema tells whether the file still
\* holds the table, failed whether the last call ended in its except clause
NewCacheDb ==
    [table |-> EmptyTable, now |-> 0, stored |-> [u \in URLs |-> NoStore],
     op |-> "", url |-> "", result |-> None,
     cache_initialized |-> TRUE, schema |-> TRUE, failed |-> FALSE]

\* get_cached_result: the row's report while it is younger than its ttl
get_cached_result_inclusive_ttl(c, url) ==
    LET row == c.table[get_url_hash(url)]
    IN IF row # NoCacheRow /\ c.now - row.created_at <= row.ttl_seconds
       THEN json_loads(row.result_json)
       ELSE None

get_cached_result(c, url) ==
    LET row == c.table[get_url_hash(url)]
    IN IF row # NoCacheRow /\ c.now - row.created_at < row.ttl_seconds
       THEN json_loads(row.result_json)
       ELSE None

\* store_result: INSERT OR REPLACE of the row of the URL's hash
store_result(c, url, result) ==
    [c EXCEPT !.table[get_url_hash(url)] =
        [normalized_url |-> url, result_json |-> json_dumps(result),
         created_at |-> c.now, ttl_seconds |-> get_cache_ttl]]

\* clear_cache: the database file is unlinked and made anew by the next call
clear_cache(c) == [c EXCEPT !.table = EmptyTable]

\* cleanup_expired: DELETE the rows at least ttl_seconds old
CacheExpired(c) ==
    {h \in UrlHashes : c.table[h] # NoCacheRow
                       /\ (c.now - c.table[h].created_at) >= c.table[h].ttl_seconds}

cleanup_expired_rows(c) ==
    [c EXCEPT !.table = [h \in UrlHashes |-> IF h \in CacheExpired(c) THEN NoCacheRow
                                             ELSE c.table[h]]]

\* _ensure_cache_initialized: _init_cache_db runs while the flag is unset, and
\* makes the table in a new or repaired file
ensure_cache_initialized(c) ==
    IF c.cache_initialized THEN c
    ELSE [c EXCEPT !.cache_initialized = TRUE, !.schema = TRUE]

\* a stored text that json.loads rejects: a write cut short
Truncated == <<"{", "status">>

\* the except clause of get_cached_result is entered: a statement on a file
\* without the table raises sqlite3.Error, json.loads of a damaged text of a
\* fresh row raises JSONDecodeError
get_cached_result_fails(c, url) ==
    LET row == c.table[get_url_hash(url)]
    IN \/ ~c.schema
       \/ /\ row # NoCacheRow
          /\ c.now - row.created_at < row.ttl_seconds
          /\ row.result_json = Truncated

\* --------------------------------------------------------- run_audit_async
\* Status(value): the member of a value, as AuditResponse.model_validate makes it
Status(value) ==
    CASE value = SUCCESS -> "Status.SUCCESS"
      [] value = PARTIAL -> "Status.PARTIAL"
      [] value = FAILED -> "Status.FAILED"
      [] OTHER -> value

\* AuditResponse.model_validate(cached_result).model_dump()
model_validate_dump(d) == [status |-> Status(d.status), url |-> d.url]

\* outcomes of fetch_crux and generate_ai_report: the data, None (no field data,
\* circuit open), an APIError or another exception
StageOutcomes == {"data", "None", "APIError", "Exception"}

\* outcomes of store_result in its thread: the row is written, sqlite raises
\* (swallowed by store_result), or json.dumps raises TypeError out of it
StoreOutcomes == {"written", "sqlite3.Error", "TypeError"}

\* the classes an "except Exception" clause catches
ExceptionClasses == {"APIError", "Exception", "sqlite3.Error", "TypeError"}

\* store_result swallows sqlite3.Error and json.JSONDecodeError, nothing else
store_result_raises(outcome) ==
    outcome # "written" /\ outcome \notin {"sqlite3.Error", "json.JSONDecodeError"}

\* lines 210-214: an exception of store_result that leaves the try statement
store_escapes(outcome) == store_result_raises(outcome) /\ outcome \notin ExceptionClasses

\* lines 152-164 and 170-184: an exception of a stage that leaves the try statement
stage_escapes(outcome) ==
    outcome \notin {"data", "None"} /\ outcome # "APIError" /\ outcome \notin ExceptionClasses

\* run_lighthouse_parallel raises AuditError when both audits gave no metrics
lighthouse_raises(mobile, desktop) == ~mobile /\ ~desktop

\* lines 188-195: the status of the merged report
merge_status_ignores_crux(mobile, desktop, crux, ai_report) ==
    IF mobile /\ desktop /\ ai_report THEN "Status.SUCCESS" ELSE "Status.PARTIAL"

merge_status(mobile, desktop, crux, ai_report) ==
    IF mobile /\ desktop /\ crux /\ ai_report THEN "Status.SUCCESS" ELSE "Status.PARTIAL"

\* line 209: whether the merged report is handed to store_result
caches_result_despite_no_cache(no_cache, status) ==
    status = "Status.SUCCESS" \/ status = "Status.PARTIAL"

caches_result(no_cache, status) ==
    ~no_cache /\ (status = "Status.SUCCESS" \/ status = "Status.PARTIAL")

\* no invocation yet
NoRun ==
    [pc |-> "idle", url |-> "", no_cache |-> FALSE, mobile |-> FALSE, desktop |-> FALSE,
     crux |-> FALSE, ai_report |-> FALSE, stage_raised |-> FALSE, result |-> None,
     returned |-> None, raised |-> FALSE, from_cache |-> FALSE, reads |-> 0, writes |-> 0,
     write_failed |-> FALSE]

\* ------------------------------------------------------------ BrowserPool
ScopeIds == 1..MaxScopes
InstanceIds == 1..MaxInstances
SemaphoreIds == 1..MaxSemaphores

\* a coroutine outside BrowserPool.acquire
NoScope == [pc |-> "out", instance |-> 0, semaphore |-> 0]

\* BrowserPool.__init__: no semaphore yet (0), no browser; semaphores holds the
\* value of every asyncio.Semaphore made so far, in_use the flag of every
\* BrowserInstance made so far, pool_lock the holder of _pool_lock
NewBrowserPool(pool_size) ==
    [pool_size |-> pool_size, initialized |-> FALSE, shutting_down |-> FALSE,
     playwright |-> FALSE, semaphore |-> 0, semaphores |-> [m \in SemaphoreIds |-> 0],
     made |-> 0, browsers |-> {}, in_use |-> [b \in InstanceIds |-> FALSE],
     next_port |-> 0, pool_lock |-> "", shutdown |-> "idle",
     scope |-> [a \in ScopeIds |-> NoScope]]

\* initialize: a new Semaphore(pool_size) replaces the one before
initialize(p) ==
    IF p.initialized THEN p
    ELSE [p EXCEPT !.playwright = TRUE, !.semaphore = p.made + 1, !.made = p.made + 1,
                   !.semaphores[p.made + 1] = p.pool_size, !.initialized = TRUE]

\* _get_available_browser: the first instance of the list that is not in use
Available(p) == {b \in p.browsers : ~p.in_use[b]}
get_available_browser(p) ==
    IF Available(p) = {} THEN 0
    ELSE CHOOSE b \in Available(p) : \A c \in Available(p) : b <= c

\* self._semaphore.release(), on the Semaphore the pool has at that moment
semaphore_release(p) == [p EXCEPT !.semaphores[p.semaphore] = @ + 1]

\* lines 199-217 once the permit is held: the lock section when _pool_lock is
\* free, else the coroutine waits for the lock
AfterPermit(p, a) ==
    IF p.pool_lock # ""
    THEN [p EXCEPT !.scope[a].pc = "permitted"]
    ELSE IF get_available_browser(p) # 0
    THEN [p EXCEPT !.in_use[get_available_browser(p)] = TRUE,
                   !.scope[a].pc = "holding",
                   !.scope[a].instance = get_available_browser(p)]
    ELSE IF ~p.playwright
    THEN [semaphore_release(p) EXCEPT !.scope[a] = NoScope]
    ELSE [p EXCEPT !.pool_lock = "launch", !.next_port = @ + 1, !.scope[a].pc = "launching"]

\* the finally block of acquire with _pool_lock free
LeaveScope(p, a) ==
    [semaphore_release([p EXCEPT !.in_use[p.scope[a].instance] = FALSE])
        EXCEPT !.scope[a] = NoScope]

\* shutdown under _pool_lock: every browser is closed and forgotten
shutdown(p) ==
    [p EXCEPT !.browsers = {}, !.playwright = FALSE, !.pool_lock = "",
              !.initialized = FALSE, !.shutting_down = FALSE, !.shutdown = "idle"]

\* ------------------------------------------------------- WebSocketManager
WsJobs == {"j1", "j2"}
SinkIds == 1..MaxSinks
TaskIds == 1..MaxTasks

\* the job whose endpoint each WebSocket object belongs to
SinkJob(k) == IF k % 2 = 0 THEN "j2" ELSE "j1"

\* an event: the job and the rank of its enqueue_broadcast call
NoEvent == [job |-> "", n |-> 0]

\* no broadcast() call is under way
NoSending == [task |-> 0, event |-> NoEvent, todo |-> <<>>, disconnected |-> {}]

\* a WebSocket object before its endpoint has called connect
NoSink == [state |-> "new", job |-> "", since |-> 0]

RECURSIVE SeqWithout(_, _)
\* the list with every element of the set removed
SeqWithout(list, gone) ==
    IF list = <<>> THEN <<>>
    ELSE IF Head(list) \in gone THEN SeqWithout(Tail(list), gone)
    ELSE <<Head(list)>> \o SeqWithout(Tail(list), gone)

\* WebSocketManager.__init__ (an absent key of connections is the empty list),
\* the ready queue of the event loop as far as _enqueue_async is concerned,
\* the sinks with what each has been sent, and the number of events emitted
NewWebSocketManager ==
    [connections |-> [j \in WsJobs |-> <<>>], broadcast_queue |-> <<>>,
     broadcast_task |-> 0, tasks |-> [t \in TaskIds |-> "none"], loop |-> FALSE,
     lock |-> FALSE, frozen |-> FALSE, ready |-> <<>>, sending |-> NoSending,
     sink |-> [k \in SinkIds |-> NoSink], sent |-> [k \in SinkIds |-> <<>>],
     emitted |-> 0]

\* connect: append the websocket to the job's list and record the loop
connect(w, job_id, websocket) ==
    [w EXCEPT !.connections[job_id] = Append(@, websocket), !.loop = TRUE]

\* disconnect: remove the websocket from the job's list, if it is still there
disconnect(w, job_id, websocket) ==
    [w EXCEPT !.connections[job_id] = SeqWithout(@, {websocket})]

\* enqueue_broadcast: with the loop recorded the coroutine is handed to the
\* loop by run_coroutine_threadsafe (a callback that will make the task),
\* else it is made a task of the running loop, else it is discarded
enqueue_broadcast(w, event, running_loop) ==
    IF w.loop THEN [w EXCEPT !.ready = Append(@, [kind |-> "callback", event |-> event])]
    ELSE IF running_loop THEN [w EXCEPT !.ready = Append(@, [kind |-> "task", event |-> event])]
    ELSE w

\* line 75: whether _enqueue_async makes a new _process_broadcasts task
needs_broadcast_task(w) == w.broadcast_task = 0 \/ w.tasks[w.broadcast_task] = "done"

\* the live _process_broadcasts tasks
Consumers(w) == {t \in TaskIds : w.tasks[t] \in {"waiting", "sending"}}

\* _enqueue_async: put the event, make the consumer task if there is none
enqueue_async(w, event) ==
    LET made == Cardinality({t \in TaskIds : w.tasks[t] # "none"})
        q == [w EXCEPT !.broadcast_queue = Append(@, event)]
    IN IF needs_broadcast_task(w)
       THEN [q EXCEPT !.broadcast_task = made + 1, !.tasks[made + 1] = "waiting"]
       ELSE q

\* broadcast_queue.get(): the oldest event
queue_get_latest(q) == q[Len(q)]

queue_get(q) == Head(q)

\* lines 113-120: the websockets whose send failed leave the job's list
remove_disconnected_drops_all(connections, job_id, disconnected) ==
    IF disconnected = {} THEN connections
    ELSE [connections EXCEPT ![job_id] = <<>>]

remove_disconnected(connections, job_id, disconnected) ==
    [connections EXCEPT ![job_id] = SeqWithout(@, disconnected)]

\* --------------------------------------------------------- rating functions
\* Rating
GOOD == "good"
NEEDS_IMPROVEMENT == "needs_improvement"
POOR == "poor"

\* a percentile is a float; the model writes it in thousandths, so that 2500 ms
\* is 2500 * Scale and a layout shift of 0.1 is Scale \div 10
Scale == 1000

\* the two thresholds of each metric, lines 26-28, 34-36 and 42-44
Thresholds(metric) ==
    IF metric = "lcp" THEN <<2500 * Scale, 4000 * Scale>>
    ELSE IF metric = "cls" THEN <<Scale \div 10, Scale \div 4>>
    ELSE <<200 * Scale, 500 * Scale>>

\* _rate_lcp with the first comparison strict
rate_lcp_exclusive(lcp_ms) ==
    IF lcp_ms < Thresholds("lcp")[1] THEN GOOD
    ELSE IF lcp_ms <= Thresholds("lcp")[2] THEN NEEDS_IMPROVEMENT
    ELSE POOR

rate_lcp(lcp_ms) ==
    IF lcp_ms <= 2500 * Scale THEN GOOD
    ELSE IF lcp_ms <= 4000 * Scale THEN NEEDS_IMPROVEMENT
    ELSE POOR

rate_cls(cls) ==
    IF cls <= Scale \div 10 THEN GOOD
    ELSE IF cls <= Scale \div 4 THEN NEEDS_IMPROVEMENT
    ELSE POOR

rate_inp(inp_ms) ==
    IF inp_ms <= 200 * Scale THEN GOOD
    ELSE IF inp_ms <= 500 * Scale THEN NEEDS_IMPROVEMENT
    ELSE POOR

\* fetch_crux_async, lines 205-207: the rating function of each metric
rate_func(metric, p75) ==
    IF metric = "lcp" THEN rate_lcp(p75)
    ELSE IF metric = "cls" THEN rate_cls(p75)
    ELSE rate_inp(p75)

\* the percentiles tried for a metric: zero, and around each threshold the
\* values up to MaxDelta thousandths and up to MaxDelta whole units away
Percentiles(metric) ==
    {0} \cup {p \in UNION {{b + d, b + d * Scale} :
                             b \in {Thresholds(metric)[1], Thresholds(metric)[2]},
                             d \in (0 - MaxDelta)..MaxDelta} : p >= 0}

\* a CrUXMetric as far as the rating goes
NoMetric == [metric |-> "none", p75 |-> 0, rating |-> "None"]

\* nothing parsed yet
NoRated == [last |-> NoMetric, prev |-> NoMetric]

\* _parse_metric with a percentile and a rating function
parse_metric(metric, p75) == [metric |-> metric, p75 |-> p75, rating |-> rate_func(metric, p75)]

\* --------------------------------------------------------- field-data stage
\* get_psi_circuit_breaker and get_ai_circuit_breaker: the thresholds of both
\* real breakers; the recovery timeout keeps the model's time scale
PsiConfig ==
    [failure_threshold |-> 3, recovery_timeout |-> RecoveryTimeout,
     half_open_max_calls |-> 1, success_threshold |-> 2]

\* attempts of the retry decorator of fetch_crux_async
StopAfterAttempt == 3

\* the CrUX stage before an audit reaches it: attempt counts the calls of the
\* function body, requests the HTTP requests sent, denied tells that the
\* breaker refused the first attempt, recovered that the API answers again
NoField ==
    [pc |-> "idle", attempt |-> 0, requests |-> 0, denied |-> FALSE, crux |-> "None",
     error |-> "None", recovered |-> FALSE]

\* ------------------------------------------------------------ progress events
\* AuditStage, in the order run_audit_async goes through the stages
AuditStages == <<"lighthouse_mobile", "lighthouse_desktop", "crux", "ai_analysis">>

\* _get_progress: int((len(job.completed_stages) / 4) * 100)
get_progress(completed_stages) == (Len(completed_stages) * 100) \div 4

\* the job before its task runs: the number of stages run_audit_async has
\* started, the stages under way, the job's fields, and the events handed to
\* enqueue_broadcast, each with the number of stages completed when it was made
NoStages ==
    [at |-> 0, under_way |-> {}, status |-> PENDING, current_stage |-> "",
     completed_stages |-> <<>>, events |-> <<>>]

\* what an emitter hands to enqueue_broadcast
Emit(j, emitter, progress) ==
    [j EXCEPT !.events = Append(@, [emitter |-> emitter, stage |-> j.current_stage,
                                    progress |-> progress, status |-> j.status,
                                    completed |-> Len(j.completed_stages)])]

\* update_stage, lines 83-89
job_update_stage(j, stage) ==
    LET j1 == [j EXCEPT !.status = RUNNING, !.current_stage = stage]
    IN Emit(j1, "update_stage", get_progress(j1.completed_stages))

\* complete_stage, lines 91-99
job_complete_stage(j, stage) ==
    LET j1 == [j EXCEPT !.completed_stages = Append(@, stage)]
    IN Emit(j1, "complete_stage", get_progress(j1.completed_stages))

\* complete_job, lines 101-110
job_complete_job(j) ==
    LET j1 == [j EXCEPT !.status = COMPLETED, !.current_stage = ""]
    IN Emit(j1, "complete_job", 100)

\* fail_job, lines 112-121
job_fail_job(j) ==
    LET j1 == [j EXCEPT !.status = FAILED, !.current_stage = ""]
    IN Emit(j1, "fail_job", get_progress(j1.completed_stages))

\* -------------------------------------------------------------- dispatcher
NoResponse == [op |-> "none", code |-> 0, job |-> 0, status |-> "none", position |-> 0]

Response(op, code, job, status, position) ==
    [op |-> op, code |-> code, job |-> job, status |-> status, position |-> position]

\* process_next_queued_job over d = [store, count, queue, started, max]; started
\* collects the job whose run_audit_job task was created; raises tells whether
\* queue.dequeue() fails with sqlite3.Error (the exception leaves the function)
RECURSIVE process_next_queued_job(_, _)
process_next_queued_job(d, raises) ==
    LET ta == try_acquire(d.count, d.max)
        dq == dequeue(d.queue)
        id == dq.row.job_id
    IN IF ~ta.ok THEN d
       ELSE IF raises THEN [d EXCEPT !.count = ta.count]
       ELSE IF dq.row = NoRow THEN [d EXCEPT !.count = release(ta.count)]
       ELSE IF ~Exists(d.store, id)
            THEN process_next_queued_job(
                     [d EXCEPT !.queue = remove(dq.queue, id), !.count = release(ta.count)],
                     FALSE)
       ELSE [store |-> update_job_status_and_position(d.store, id, PENDING, 0, ""),
             count |-> ta.count,
             queue |-> remove(dq.queue, id),
             started |-> d.started \cup {id},
             max |-> d.max]

\* POST /audit
create_audit(client_ip, url_ok) ==
    LET s1 == cleanup_expired(job_store)
        id == next_job + 1
        cj == create_job(s1, id, client_ip)
        ta == try_acquire(active_count, config.max_concurrent)
        eq == enqueue(queue, id, clock, config.max_queue_size)
    IN /\ next_job < MaxJobs
       /\ IF ~url_ok
          THEN /\ job_store' = s1
               /\ response' = Response("create", 400, 0, "none", 0)
               /\ UNCHANGED <<next_job, active_count, queue, worker>>
          ELSE IF ~cj.ok
          THEN /\ job_store' = s1
               /\ response' = Response("create", 429, 0, "none", 0)
               /\ UNCHANGED <<next_job, active_count, queue, worker>>
          ELSE IF ta.ok
          THEN /\ job_store' = cj.store
               /\ next_job' = id
               /\ active_count' = ta.count
               /\ worker' = [worker EXCEPT ![id] = "started"]
               /\ response' = Response("create", 200, id, PENDING, 0)
               /\ UNCHANGED queue
          ELSE IF eq.position = 0
          THEN /\ job_store' = remove_job(cj.store, id)
               /\ next_job' = id
               /\ response' = Response("create", 503, id, "none", 0)
               /\ UNCHANGED <<active_count, queue, worker>>
          ELSE /\ job_store' = update_job_status_and_position(cj.store, id, QUEUED,
                                                              eq.position, "")
               /\ next_job' = id
               /\ queue' = eq.queue
               /\ response' = Response("create", 200, id, QUEUED, eq.position)
               /\ UNCHANGED <<active_count, worker>>
       /\ UNCHANGED <<config, semaphore, clock, pool_semaphore>>
       /\ UNCHANGED <<lockVars, serviceVars>>

\* run_audit_job up to its first stage callback: on_stage_start -> update_stage
run_audit_job_stage(id) ==
    /\ worker[id] = "started"
    /\ job_store' = update_stage(job_store, id)
    /\ worker' = [worker EXCEPT ![id] = "running"]
    /\ UNCHANGED <<config, next_job, active_count, semaphore, queue, clock, response>>
    /\ UNCHANGED <<pool_semaphore, url_locks, cache, inv, released_foreign, serviceVars>>

\* run_audit_job from the return (or exception) of run_audit_async to its end:
\* complete_job / fail_job, then the finally block: release(), drain the queue
run_audit_job_finish(id, audit_raises, dequeue_raises) ==
    LET s1 == IF audit_raises THEN fail_job(job_store, id) ELSE complete_job(job_store, id)
        d == process_next_queued_job([store |-> s1, count |-> release(active_count),
                                      queue |-> queue, started |-> {},
                                      max |-> config.max_concurrent], dequeue_raises)
    IN /\ worker[id] \in {"started", "running"}
       /\ job_store' = d.store
       /\ active_count' = d.count
       /\ queue' = d.queue
       /\ worker' = [w \in DOMAIN worker |->
                        IF w = id THEN "done"
                        ELSE IF w \in d.started THEN "started" ELSE worker[w]]
       /\ UNCHANGED <<config, next_job, semaphore, clock, response, pool_semaphore>>
       /\ UNCHANGED <<lockVars, serviceVars>>

\* DELETE /audit/{job_id}
cancel_audit(id) ==
    LET job == get_job(job_store, id)
        c == cancel(queue, id)
    IN /\ IF job = NoJob
          THEN /\ response' = Response("cancel", 404, id, "none", 0)
               /\ UNCHANGED <<job_store, queue>>
          ELSE IF job.status # QUEUED
          THEN /\ response' = Response("cancel", 400, id, job.status, 0)
               /\ UNCHANGED <<job_store, queue>>
          ELSE /\ queue' = c.queue
               /\ job_store' = IF c.ok
                               THEN update_job_status_and_position(job_store, id, FAILED, 0,
                                                                   "Cancelled by user")
                               ELSE job_store
               /\ response' = Response("cancel", 200, id, IF c.ok THEN "cancelled" ELSE "none", 0)
       /\ UNCHANGED <<config, next_job, active_count, semaphore, clock, worker, pool_semaphore>>
       /\ UNCHANGED <<lockVars, serviceVars>>

\* GET /audit/{job_id}
get_audit_status(id) ==
    LET job == get_job(job_store, id)
        pos == get_position(queue, id)
    IN /\ IF job = NoJob
          THEN /\ response' = Response("status", 404, id, "none", 0)
               /\ UNCHANGED job_store
          ELSE IF job.status = QUEUED
          THEN /\ job_store' = update_queue_position(job_store, id, pos)
               /\ response' = Response("status", 200, id, job.status, pos)
          ELSE /\ response' = Response("status", 200, id, job.status, 0)
               /\ UNCHANGED job_store
       /\ UNCHANGED <<config, next_job, active_count, semaphore, queue, clock, worker,
                    pool_semaphore>>
       /\ UNCHANGED <<lockVars, serviceVars>>

\* 24 hours pass: every job now in the registry has created_at < now - 24 h
Elapse24h ==
    /\ \E id \in JobIds : Exists(job_store, id) /\ ~job_store.jobs[id].old
    /\ job_store' = [job_store EXCEPT !.jobs = [id \in DOMAIN @ |->
                        IF Exists(job_store, id) THEN [@[id] EXCEPT !.old = TRUE] ELSE @[id]]]
    /\ UNCHANGED <<config, next_job, active_count, semaphore, queue, clock, worker, response,
                 pool_semaphore>>
    /\ UNCHANGED <<lockVars, serviceVars>>

\* one second passes on the queue database's clock
TickSecond ==
    /\ clock < MaxClock
    /\ clock' = clock + 1
    /\ UNCHANGED <<config, job_store, next_job, active_count, semaphore, queue, worker, response,
                 pool_semaphore>>
    /\ UNCHANGED <<lockVars, serviceVars>>

EmptyStore(ids) == [jobs |-> [id \in ids |-> NoJob], ip_limits |-> [ip \in IPs |-> {}]]

EmptyQueue == [rows |-> {}, seq |-> 0]

Config(max_concurrent, max_queue_size, pool_size) ==
    [max_concurrent |-> max_concurrent, max_queue_size |-> max_queue_size,
     pool_size |-> pool_size]

\* the process right after startup with the given configuration and registry size
Started(cfg, ids) ==
    /\ config = cfg
    /\ job_store = EmptyStore(ids)
    /\ next_job = 0
    /\ active_count = 0
    /\ semaphore = cfg.max_concurrent
    /\ queue = EmptyQueue
    /\ clock = 0
    /\ worker = [id \in JobIds |-> "none"]
    /\ response = NoResponse
    /\ pool_semaphore = cfg.pool_size
    /\ url_locks = NoLocks
    /\ cache = [u \in URLs |-> 0]
    /\ inv = [i \in InvIds |-> NoInvocation]
    /\ released_foreign = FALSE
    /\ breaker = NewBreaker
    /\ cache_db = NewCacheDb
    /\ run = NoRun
    /\ browser_pool = NewBrowserPool(cfg.pool_size)
    /\ ws = NewWebSocketManager
    /\ rated = NoRated
    /\ field = NoField
    /\ stages = NoStages

Init == Started(Config(MaxConcurrent, MaxQueueSize, PoolSize), JobIds)

\* request.client.host of the submissions: the dispatcher treats every client
\* alike below the per-client quota, which SpecRegistry exercises with all IPs
Submitters == {"ip1"}

Next ==
    \/ \E ip \in Submitters, url_ok \in BOOLEAN : create_audit(ip, url_ok)
    \/ \E id \in JobIds : run_audit_job_stage(id)
    \/ \E id \in JobIds, audit_raises \in BOOLEAN : run_audit_job_finish(id, audit_raises, FALSE)
    \/ \E id \in JobIds : cancel_audit(id)
    \/ \E id \in JobIds : get_audit_status(id)
    \/ Elapse24h
    \/ TickSecond

Spec == Init /\ [][Next]_vars

\* the same program when the queue database may fail: queue.dequeue() raises
\* sqlite3.Error (database locked, disk I/O error) inside process_next_queued_job
NextFault ==
    \/ Next
    \/ \E id \in JobIds, audit_raises \in BOOLEAN : run_audit_job_finish(id, audit_raises, TRUE)

SpecFault == Init /\ [][NextFault]_vars

\* the dispatcher with a queue that has room for QueueMaxSize entries, so that
\* the drain meets entries of expired jobs in front of entries of live ones
InitDrain == Started(Config(MaxConcurrent, QueueMaxSize, PoolSize), JobIds)

SpecDrain == InitDrain /\ [][Next]_vars

\* ------------------------------------------- CircuitBreaker used on its own
\* the public methods of one breaker, called in any order: callers run in
\* threads, so a call admitted by can_execute may record its outcome after the
\* breaker has changed state
BreakerOnlyUnchanged ==
    UNCHANGED <<config, job_store, next_job, active_count, semaphore, queue, clock, worker,
                response, pool_semaphore, url_locks, cache, inv, released_foreign,
                besideBreaker>>

breaker_state ==
    /\ breaker' = state(breaker)
    /\ BreakerOnlyUnchanged

breaker_can_execute ==
    /\ breaker' = can_execute(breaker)
    /\ BreakerOnlyUnchanged

breaker_record_success ==
    /\ breaker' = record_success(breaker)
    /\ BreakerOnlyUnchanged

breaker_record_failure ==
    /\ breaker.failure_count < MaxFailures
    /\ breaker' = record_failure(breaker)
    /\ BreakerOnlyUnchanged

breaker_reset ==
    /\ breaker' = reset(breaker)
    /\ BreakerOnlyUnchanged

\* one second passes
breaker_tick ==
    /\ breaker.now < MaxBreakerClock
    /\ breaker' = [breaker EXCEPT !.now = @ + 1, !.op = "tick", !.result = "none"]
    /\ BreakerOnlyUnchanged

NextBreaker ==
    \/ breaker_state
    \/ breaker_can_execute
    \/ breaker_record_success
    \/ breaker_record_failure
    \/ breaker_reset
    \/ breaker_tick

SpecBreaker == Init /\ [][NextBreaker]_vars

\* ------------------------------------------------------ crash and restart
\* the process dies and is started again: the registry, the limiter, the pool
\* and the worker tasks live in memory and start empty, the audit_queue table is
\* on disk and lifespan runs recover_from_crash -> requeue_processing on it.
\* (A crash between dequeue's commit and queue.remove leaves a processing row
\* that the restart turns back into pending.) lifespan starts no worker and
\* does not call process_next_queued_job. worker = "recovered" marks a job id
\* whose queue row is pending after the restart.
Restart ==
    LET q == requeue_processing(queue)
    IN /\ queue' = q
       /\ job_store' = EmptyStore(JobIds)
       /\ active_count' = 0
       /\ semaphore' = config.max_concurrent
       /\ pool_semaphore' = config.pool_size
       /\ worker' = [id \in JobIds |->
                        IF \E r \in Rows(q, "pending") : r.job_id = id
                        THEN "recovered" ELSE "none"]
       /\ response' = NoResponse
       /\ UNCHANGED <<config, next_job, clock>>
       /\ UNCHANGED <<lockVars, serviceVars>>

NextRestart ==
    \/ Next
    \/ Restart

\* every started worker runs on: its audit returns or raises
RestartFairness ==
    \A id \in JobIds :
        /\ WF_vars(run_audit_job_stage(id))
        /\ WF_vars(\E audit_raises \in BOOLEAN : run_audit_job_finish(id, audit_raises, FALSE))

SpecRestart == Init /\ [][NextRestart]_vars /\ RestartFairness

\* ----------------------------------------- PersistentQueue used on its own
\* every public operation of the queue, called in any order by its owner;
\* requeue_processing is what a restart runs (lifespan -> recover_from_crash)
QueueJobIds == 1..MaxQueueRows

QueueOnlyUnchanged ==
    UNCHANGED <<config, job_store, next_job, active_count, semaphore, worker, pool_semaphore,
                url_locks, cache, inv, released_foreign, serviceVars>>

\* enqueue of a job id that already has a row violates UNIQUE(job_id): the
\* INSERT raises sqlite3.IntegrityError and nothing is committed
queue_enqueue(job_id) ==
    LET eq == enqueue(queue, job_id, clock, config.max_queue_size)
    IN /\ queue.seq < MaxQueueRows
       /\ IF eq.position # 0 /\ HasRow(queue, job_id)
          THEN /\ response' = Response("enqueue", 500, job_id, "none", 0)
               /\ UNCHANGED queue
          ELSE /\ queue' = eq.queue
               /\ response' = Response("enqueue", 200, job_id,
                                       IF eq.position = 0 THEN "none" ELSE "pending", eq.position)
       /\ UNCHANGED clock
       /\ QueueOnlyUnchanged

queue_dequeue ==
    LET dq == dequeue(queue)
    IN /\ queue' = dq.queue
       /\ response' = Response("dequeue", 200, dq.row.job_id, dq.row.status, dq.row.id)
       /\ UNCHANGED clock
       /\ QueueOnlyUnchanged

queue_remove(job_id) ==
    /\ queue' = remove(queue, job_id)
    /\ response' = Response("remove", 200, job_id,
                            IF HasRow(queue, job_id) THEN "removed" ELSE "none", 0)
    /\ UNCHANGED clock
    /\ QueueOnlyUnchanged

queue_cancel(job_id) ==
    LET c == cancel(queue, job_id)
    IN /\ queue' = c.queue
       /\ response' = Response("cancel", 200, job_id, IF c.ok THEN "cancelled" ELSE "none", 0)
       /\ UNCHANGED clock
       /\ QueueOnlyUnchanged

queue_cleanup_stale(max_age_seconds) ==
    /\ queue' = cleanup_stale(queue, clock, max_age_seconds)
    /\ response' = Response("cleanup_stale", 200, 0, "none",
                            Cardinality(queue.rows) - Cardinality(queue'.rows))
    /\ UNCHANGED clock
    /\ QueueOnlyUnchanged

queue_requeue_processing ==
    /\ queue' = requeue_processing(queue)
    /\ response' = Response("requeue_processing", 200, 0, "none",
                            Cardinality(Rows(queue, "processing")))
    /\ UNCHANGED clock
    /\ QueueOnlyUnchanged

\* the job id of an enqueue is a fresh uuid4, or the first id once again (its
\* row may still be there, or may have been removed)
EnqueueJobIds(q) == {1, q.seq + 1}

queue_get_position(job_id) ==
    /\ response' = Response("get_position", 200, job_id, "none", get_position(queue, job_id))
    /\ UNCHANGED <<queue, clock>>
    /\ QueueOnlyUnchanged

InitQueue == Started(Config(MaxConcurrent, QueueMaxSize, PoolSize), JobIds)

NextQueue ==
    \/ \E job_id \in QueueJobIds : queue_get_position(job_id)
    \/ \E job_id \in EnqueueJobIds(queue) : queue_enqueue(job_id)
    \/ queue_dequeue
    \/ \E job_id \in QueueJobIds : queue_remove(job_id)
    \/ \E job_id \in QueueJobIds : queue_cancel(job_id)
    \/ \E max_age_seconds \in {0} : queue_cleanup_stale(max_age_seconds)
    \/ queue_requeue_processing
    \/ TickSecond

SpecQueue == InitQueue /\ [][NextQueue]_vars

\* -------------------------------------- ConcurrencyManager used on its own
\* the four slot operations of the limiter, called in any order; a blocking
\* acquire() that waits on the semaphore completes when the semaphore is positive
LimiterOnlyUnchanged ==
    UNCHANGED <<config, job_store, next_job, queue, clock, worker, pool_semaphore,
                url_locks, cache, inv, released_foreign, serviceVars>>

limiter_try_acquire ==
    LET ta == try_acquire(active_count, config.max_concurrent)
    IN /\ active_count' = ta.count
       /\ response' = Response("try_acquire", 200, 0, IF ta.ok THEN "true" ELSE "false",
                               active_count)
       /\ UNCHANGED semaphore
       /\ LimiterOnlyUnchanged

limiter_release ==
    /\ active_count' = release(active_count)
    /\ response' = Response("release", 200, 0, "none", active_count)
    /\ UNCHANGED semaphore
    /\ LimiterOnlyUnchanged

\* acquire: await self._get_semaphore().acquire(); self._active_count += 1
limiter_acquire ==
    /\ semaphore > 0
    /\ semaphore' = semaphore - 1
    /\ active_count' = active_count + 1
    /\ response' = Response("acquire", 200, 0, "none", active_count)
    /\ LimiterOnlyUnchanged

\* release_async: self._get_semaphore().release(); clamped decrement
limiter_release_async ==
    /\ semaphore < SemaphoreCeiling
    /\ semaphore' = semaphore + 1
    /\ active_count' = release(active_count)
    /\ response' = Response("release_async", 200, 0, "none", active_count)
    /\ LimiterOnlyUnchanged

InitLimiter == Started(Config(LimiterMax, MaxQueueSize, PoolSize), JobIds)

NextLimiter ==
    \/ limiter_try_acquire
    \/ limiter_release
    \/ limiter_acquire
    \/ limiter_release_async

SpecLimiter == InitLimiter /\ [][NextLimiter]_vars

\* ------------------------------------------------ JobStore's per-IP quota
\* the quota check of POST /audit followed by the ways a job leaves the
\* active set, with enough capacity for one client to reach max_jobs_per_ip
RegistryJobIds == 1..MaxRegistryJobs

RegistryOnlyUnchanged ==
    UNCHANGED <<config, active_count, semaphore, queue, clock, worker, pool_semaphore,
                url_locks, cache, inv, released_foreign, serviceVars>>

\* create_audit lines 143-156: cleanup_expired, create_job, 429 on None
registry_create_job(client_ip) ==
    LET s1 == cleanup_expired(job_store)
        id == next_job + 1
        cj == create_job(s1, id, client_ip)
    IN /\ next_job < MaxRegistryJobs
       /\ IF cj.ok
          THEN /\ job_store' = cj.store
               /\ next_job' = id
               /\ response' = Response("create", 200, id, PENDING, 0)
          ELSE /\ job_store' = s1
               /\ response' = Response("create", 429, 0, "none", 0)
               /\ UNCHANGED next_job
       /\ RegistryOnlyUnchanged

registry_complete_job(id) ==
    /\ job_store.jobs[id].status \in {PENDING, RUNNING}
    /\ job_store' = complete_job(job_store, id)
    /\ response' = Response("complete_job", 200, id, job_store'.jobs[id].status, 0)
    /\ UNCHANGED next_job
    /\ RegistryOnlyUnchanged

registry_fail_job(id) ==
    /\ job_store.jobs[id].status \in {PENDING, RUNNING}
    /\ job_store' = fail_job(job_store, id)
    /\ response' = Response("fail_job", 200, id, job_store'.jobs[id].status, 0)
    /\ UNCHANGED next_job
    /\ RegistryOnlyUnchanged

registry_remove_job(id) ==
    /\ job_store.jobs[id].status = PENDING
    /\ job_store' = remove_job(job_store, id)
    /\ response' = Response("remove_job", 200, id, job_store'.jobs[id].status, 0)
    /\ UNCHANGED next_job
    /\ RegistryOnlyUnchanged

InitRegistry == Started(Config(MaxConcurrent, MaxQueueSize, PoolSize), RegistryJobIds)

NextRegistry ==
    \/ \E ip \in IPs : registry_create_job(ip)
    \/ \E id \in RegistryJobIds : registry_complete_job(id)
    \/ \E id \in RegistryJobIds : registry_fail_job(id)
    \/ \E id \in RegistryJobIds : registry_remove_job(id)

SpecRegistry == InitRegistry /\ [][NextRegistry]_vars

\* ------------------------------------------- workers and the browser pool
\* run_audit_job with the lighthouse stage spelled out: run_lighthouse_parallel
\* enters browser_pool.acquire() twice, one after the other, and leaves both
\* scopes when the two audits are over. BrowserPool.acquire waits on the pool
\* semaphore without a timeout; a failed or timed-out launch releases the
\* permit and raises, which run_audit_async turns into a failed report.
PoolUnchanged == UNCHANGED <<config, next_job, active_count, semaphore, queue, clock, response>>

\* async with browser_pool.acquire() as mobile_browser
pool_acquire_first(id, launch_ok) ==
    /\ worker[id] = "started"
    /\ pool_semaphore > 0
    /\ IF launch_ok
       THEN /\ pool_semaphore' = pool_semaphore - 1
            /\ worker' = [worker EXCEPT ![id] = "first"]
       ELSE /\ worker' = [worker EXCEPT ![id] = "running"]
            /\ UNCHANGED pool_semaphore
    /\ UNCHANGED job_store
    /\ PoolUnchanged
    /\ UNCHANGED <<lockVars, serviceVars>>

\* async with browser_pool.acquire() as desktop_browser, then the first stage
\* callbacks of the gathered audits (on_mobile_start -> update_stage)
pool_acquire_second(id, launch_ok) ==
    /\ worker[id] = "first"
    /\ pool_semaphore > 0
    /\ IF launch_ok
       THEN /\ pool_semaphore' = pool_semaphore - 1
            /\ worker' = [worker EXCEPT ![id] = "both"]
            /\ job_store' = update_stage(job_store, id)
       ELSE /\ pool_semaphore' = pool_semaphore + 1
            /\ worker' = [worker EXCEPT ![id] = "running"]
            /\ UNCHANGED job_store
    /\ PoolUnchanged
    /\ UNCHANGED <<lockVars, serviceVars>>

\* both audits returned: the two acquire scopes are left, each releases its permit
pool_release_both(id) ==
    /\ worker[id] = "both"
    /\ pool_semaphore' = pool_semaphore + 2
    /\ worker' = [worker EXCEPT ![id] = "running"]
    /\ UNCHANGED job_store
    /\ PoolUnchanged
    /\ UNCHANGED <<lockVars, serviceVars>>

\* as many audits may run as the pool has browsers (defaults: 10 audits, 5 browsers)
InitPool == Started(Config(PoolSize, MaxQueueSize, PoolSize), JobIds)

NextPool ==
    \/ \E ip \in IPs, url_ok \in BOOLEAN : create_audit(ip, url_ok)
    \/ \E id \in JobIds, launch_ok \in BOOLEAN : pool_acquire_first(id, launch_ok)
    \/ \E id \in JobIds, launch_ok \in BOOLEAN : pool_acquire_second(id, launch_ok)
    \/ \E id \in JobIds : pool_release_both(id)
    \/ \E id \in JobIds, audit_raises \in BOOLEAN : run_audit_job_finish(id, audit_raises, FALSE)

\* every external call returns or times out: a worker step that stays possible
\* is eventually taken
WorkerFairness ==
    \A id \in JobIds :
        /\ WF_vars(\E launch_ok \in BOOLEAN : pool_acquire_first(id, launch_ok))
        /\ WF_vars(\E launch_ok \in BOOLEAN : pool_acquire_second(id, launch_ok))
        /\ WF_vars(pool_release_both(id))
        /\ WF_vars(\E audit_raises \in BOOLEAN : run_audit_job_finish(id, audit_raises, FALSE))

FairSpec == InitPool /\ [][NextPool]_vars /\ WorkerFairness

\* --------------------------------------- run_audit_async and the URL locks
\* concurrent invocations of run_audit_async on the event loop; one action per
\* stretch of code between two awaits
LockOnlyUnchanged ==
    UNCHANGED <<config, job_store, next_job, active_count, semaphore, queue, clock, worker,
                response, pool_semaphore, serviceVars>>

HoldsUrlLock(i) == inv[i].pc \in {"reprobe", "lighthouse", "store", "finish"}

\* where the invocation goes once lock.acquire() has returned
AfterAcquire(v, lock, was_first) ==
    [v EXCEPT !.lock = lock,
              !.was_first = was_first,
              !.pc = IF ~was_first /\ ~v.no_cache THEN "reprobe" ELSE "lighthouse",
              !.ran_despite_cache = (was_first \/ v.no_cache) /\ ~v.no_cache /\ cache[v.url] # 0]

\* a worker calls run_audit_async(url, no_cache)
audit_call(i, url, no_cache) ==
    /\ inv[i].pc = "idle"
    /\ \A j \in InvIds : j < i => inv[j].pc # "idle"
    /\ inv' = [inv EXCEPT ![i] = [NoInvocation EXCEPT
                  !.url = url, !.no_cache = no_cache,
                  !.pc = IF no_cache THEN "acquire" ELSE "probe"]]
    /\ UNCHANGED <<url_locks, cache, released_foreign>>
    /\ LockOnlyUnchanged

\* lines 64-67: the first cache probe returns
audit_probe(i) ==
    /\ inv[i].pc = "probe"
    /\ inv' = [inv EXCEPT ![i] = IF cache[inv[i].url] # 0
                                 THEN [@ EXCEPT !.pc = "done", !.result = cache[inv[i].url]]
                                 ELSE [@ EXCEPT !.pc = "acquire"]]
    /\ UNCHANGED <<url_locks, cache, released_foreign>>
    /\ LockOnlyUnchanged

\* acquire_url_lock up to lock.acquire(): taken at once when the Lock is free
\* and has no waiter, else the invocation joins the Lock's waiters
audit_acquire(i) ==
    LET g == get_url_lock(url_locks, inv[i].url)
        lk == g.state.objs[g.lock]
        was_locked == lk.locked
    IN /\ inv[i].pc = "acquire"
       /\ g.lock <= MaxLocks
       /\ IF ~lk.locked /\ lk.waiters = <<>>
          THEN /\ url_locks' = [g.state EXCEPT !.objs[g.lock].locked = TRUE,
                                               !.objs[g.lock].holder = i]
               /\ inv' = [inv EXCEPT ![i] = AfterAcquire(@, g.lock, ~was_locked)]
          ELSE /\ url_locks' = [g.state EXCEPT !.objs[g.lock].waiters = Append(@, i)]
               /\ inv' = [inv EXCEPT ![i] = [@ EXCEPT !.pc = "wait", !.lock = g.lock,
                                                      !.was_first = ~was_locked]]
       /\ UNCHANGED <<cache, released_foreign>>
       /\ LockOnlyUnchanged

\* the woken waiter runs again inside lock.acquire() and takes the Lock
audit_resume(i) ==
    LET l == inv[i].lock
    IN /\ inv[i].pc = "wait"
       /\ url_locks.objs[l].woken = i
       /\ url_locks' = [url_locks EXCEPT !.objs[l] =
                           [@ EXCEPT !.locked = TRUE, !.holder = i, !.woken = 0,
                                     !.waiters = Tail(@)]]
       /\ inv' = [inv EXCEPT ![i] = AfterAcquire(@, l, @.was_first)]
       /\ UNCHANGED <<cache, released_foreign>>
       /\ LockOnlyUnchanged

\* lines 74-78: the second cache probe of an invocation that had to wait
audit_reprobe(i) ==
    LET url == inv[i].url
    IN /\ inv[i].pc = "reprobe"
       /\ IF cache[url] # 0
          THEN /\ inv' = [inv EXCEPT ![i] = [@ EXCEPT !.pc = "done", !.result = cache[url]]]
               /\ url_locks' = release_url_lock(url_locks, url)
               /\ released_foreign' = (released_foreign \/ ReleasesForeign(url_locks, url, i))
          ELSE /\ inv' = [inv EXCEPT ![i] = [@ EXCEPT !.pc = "lighthouse"]]
               /\ UNCHANGED <<url_locks, released_foreign>>
       /\ UNCHANGED cache
       /\ LockOnlyUnchanged

\* lines 110-206: the lighthouse stage and the optional stages have run; a
\* failed lighthouse stage returns at once through the finally block
audit_lighthouse(i, lighthouse_ok) ==
    LET url == inv[i].url
    IN /\ inv[i].pc = "lighthouse"
       /\ IF lighthouse_ok /\ ~inv[i].no_cache
          THEN /\ inv' = [inv EXCEPT ![i] = [@ EXCEPT !.pc = "store"]]
               /\ UNCHANGED <<url_locks, released_foreign>>
          ELSE /\ inv' = [inv EXCEPT ![i] =
                             [@ EXCEPT !.pc = "done",
                                       !.result = IF lighthouse_ok THEN i ELSE 0 - i]]
               /\ url_locks' = release_url_lock(url_locks, url)
               /\ released_foreign' = (released_foreign \/ ReleasesForeign(url_locks, url, i))
       /\ UNCHANGED cache
       /\ LockOnlyUnchanged

\* lines 209-214: store_result ran in its thread; a failed write is swallowed
audit_store(i, write_ok) ==
    /\ inv[i].pc = "store"
    /\ cache' = IF write_ok THEN [cache EXCEPT ![inv[i].url] = i] ELSE cache
    /\ inv' = [inv EXCEPT ![i] = [@ EXCEPT !.pc = "finish"]]
    /\ UNCHANGED <<url_locks, released_foreign>>
    /\ LockOnlyUnchanged

\* lines 216-220: return the merged report; finally release_url_lock(url)
audit_finish(i) ==
    LET url == inv[i].url
    IN /\ inv[i].pc = "finish"
       /\ inv' = [inv EXCEPT ![i] = [@ EXCEPT !.pc = "done", !.result = i]]
       /\ url_locks' = release_url_lock(url_locks, url)
       /\ released_foreign' = (released_foreign \/ ReleasesForeign(url_locks, url, i))
       /\ UNCHANGED cache
       /\ LockOnlyUnchanged

\* lines 73-220: an exception nothing catches, or the cancellation of the task
\* at one of the awaits inside the try block, leaves through the finally block
audit_raise(i) ==
    LET url == inv[i].url
    IN /\ inv[i].pc \in {"reprobe", "lighthouse", "store"}
       /\ inv' = [inv EXCEPT ![i] = [@ EXCEPT !.pc = "done", !.result = 0 - i]]
       /\ url_locks' = release_url_lock(url_locks, url)
       /\ released_foreign' = (released_foreign \/ ReleasesForeign(url_locks, url, i))
       /\ UNCHANGED cache
       /\ LockOnlyUnchanged

\* line 71: the task is cancelled while it waits in lock.acquire(): it leaves
\* the waiters without the Lock, hands a wake-up it had received to the next
\* waiter, and never enters the try block
audit_cancel_wait(i) ==
    LET l == inv[i].lock
        lk == url_locks.objs[l]
        rest == SelectSeq(lk.waiters, LAMBDA w : w # i)
    IN /\ inv[i].pc = "wait"
       /\ url_locks' = [url_locks EXCEPT !.objs[l] =
                           [@ EXCEPT !.waiters = rest,
                                     !.woken = IF lk.woken # i THEN lk.woken
                                               ELSE IF rest # <<>> THEN Head(rest) ELSE 0]]
       /\ inv' = [inv EXCEPT ![i] = [@ EXCEPT !.pc = "done", !.result = 0 - i]]
       /\ UNCHANGED <<cache, released_foreign>>
       /\ LockOnlyUnchanged

\* somebody calls cleanup_url_locks()
url_locks_cleanup ==
    /\ url_locks' = cleanup_url_locks(url_locks)
    /\ url_locks' # url_locks
    /\ UNCHANGED <<cache, inv, released_foreign>>
    /\ LockOnlyUnchanged

NextAudit ==
    \/ \E i \in InvIds, url \in URLs, no_cache \in BOOLEAN : audit_call(i, url, no_cache)
    \/ \E i \in InvIds : audit_probe(i)
    \/ \E i \in InvIds : audit_acquire(i)
    \/ \E i \in InvIds : audit_resume(i)
    \/ \E i \in InvIds : audit_reprobe(i)
    \/ \E i \in InvIds, lighthouse_ok \in BOOLEAN : audit_lighthouse(i, lighthouse_ok)
    \/ \E i \in InvIds, write_ok \in BOOLEAN : audit_store(i, write_ok)
    \/ \E i \in InvIds : audit_finish(i)
    \/ \E i \in InvIds : audit_raise(i)
    \/ \E i \in InvIds : audit_cancel_wait(i)

NextLock == NextAudit \/ url_locks_cleanup

\* run_audit_async alone (the application never calls cleanup_url_locks)
SpecAudit == Init /\ [][NextAudit]_vars

\* run_audit_async together with cleanup_url_locks
SpecLock == Init /\ [][NextLock]_vars

\* ------------------------------------------------ result cache on its own
\* the functions of services/cache.py called in any order, one call at a time
\* (each runs in one sqlite transaction), while time.time() advances
CacheOnlyUnchanged == UNCHANGED <<coreVars, run, browser_pool, ws, rated, field, stages>>

cache_store_result(url, result) ==
    /\ cache_db' = [store_result(cache_db, url, result) EXCEPT
                       !.stored[url] = [result |-> result, at |-> cache_db.now],
                       !.op = "store_result", !.url = url, !.result = None]
    /\ CacheOnlyUnchanged

cache_get_cached_result(url) ==
    /\ cache_db' = [cache_db EXCEPT !.op = "get_cached_result", !.url = url,
                                    !.result = get_cached_result(cache_db, url)]
    /\ CacheOnlyUnchanged

cache_clear_cache ==
    /\ cache_db' = [clear_cache(cache_db) EXCEPT
                       !.stored = [u \in URLs |-> NoStore],
                       !.op = "clear_cache", !.url = "", !.result = None]
    /\ CacheOnlyUnchanged

cache_cleanup_expired ==
    /\ cache_db' = [cleanup_expired_rows(cache_db) EXCEPT
                       !.op = "cleanup_expired", !.url = "", !.result = None]
    /\ CacheOnlyUnchanged

\* a second passes
cache_tick ==
    /\ cache_db.now < MaxCacheClock
    /\ cache_db' = [cache_db EXCEPT !.now = @ + 1, !.op = "", !.url = "", !.result = None]
    /\ CacheOnlyUnchanged

NextCache ==
    \/ \E url \in URLs, result \in ResultDicts : cache_store_result(url, result)
    \/ \E url \in URLs : cache_get_cached_result(url)
    \/ cache_clear_cache
    \/ cache_cleanup_expired
    \/ cache_tick

SpecCache == Init /\ [][NextCache]_vars

\* ------------------------------------------ the cache on a damaged database
\* the calls of services/cache.py in full, with their except clauses, on a
\* database file that may be removed or damaged behind the module's back
cache_file_damaged(url, whole) ==
    /\ cache_db.cache_initialized
    /\ cache_db.schema
    /\ ~whole => cache_db.table[get_url_hash(url)] # NoCacheRow
    /\ cache_db' = IF whole
                   THEN [cache_db EXCEPT !.table = EmptyTable, !.schema = FALSE,
                                         !.stored = [u \in URLs |-> NoStore],
                                         !.op = "", !.url = "", !.result = None,
                                         !.failed = FALSE]
                   ELSE [cache_db EXCEPT !.table[get_url_hash(url)].result_json = Truncated,
                                         !.op = "", !.url = "", !.result = None,
                                         !.failed = FALSE]
    /\ CacheOnlyUnchanged

\* get_cached_result, lines 120-155
cache_read(url) ==
    LET c == ensure_cache_initialized(cache_db)
        fails == get_cached_result_fails(c, url)
    IN /\ cache_db' = [c EXCEPT !.op = "get_cached_result", !.url = url, !.failed = fails,
                                !.result = IF fails THEN None ELSE get_cached_result(c, url)]
       /\ CacheOnlyUnchanged

\* store_result, lines 158-189
cache_write(url, result) ==
    LET c == ensure_cache_initialized(cache_db)
    IN /\ cache_db' = IF ~c.schema
                      THEN [c EXCEPT !.op = "store_result", !.url = url, !.result = None,
                                     !.failed = TRUE]
                      ELSE [store_result(c, url, result) EXCEPT
                               !.stored[url] = [result |-> result, at |-> c.now],
                               !.op = "store_result", !.url = url, !.result = None,
                               !.failed = FALSE]
       /\ CacheOnlyUnchanged

NextCacheFault ==
    \/ \E url \in URLs, whole \in BOOLEAN : cache_file_damaged(url, whole)
    \/ \E url \in URLs : cache_read(url)
    \/ \E url \in URLs, result \in ResultDicts : cache_write(url, result)
    \/ cache_tick

SpecCacheFault == Init /\ [][NextCacheFault]_vars

\* ------------------------------------- one run_audit_async and the cache
\* one invocation of run_audit_async followed from call to return, one action
\* per stretch of code between two awaits, on the cache database of
\* services/cache.py; acquire_url_lock answers what the other invocations
\* make it answer
ReportOnlyUnchanged == UNCHANGED <<coreVars, browser_pool, ws, rated, field, stages>>

\* if cached_result: return AuditResponse.model_validate(cached_result).model_dump()
AfterProbe(r, cached_result, miss_pc) ==
    IF cached_result # None
    THEN [r EXCEPT !.pc = "done", !.returned = model_validate_dump(cached_result),
                   !.from_cache = TRUE, !.reads = @ + 1]
    ELSE [r EXCEPT !.pc = miss_pc, !.reads = @ + 1]

\* a worker calls run_audit_async(url, no_cache)
report_call(url, no_cache) ==
    /\ run.pc \in {"idle", "done"}
    /\ run' = [NoRun EXCEPT !.url = url, !.no_cache = no_cache,
                            !.pc = IF no_cache THEN "acquire" ELSE "probe"]
    /\ UNCHANGED cache_db
    /\ ReportOnlyUnchanged

\* lines 64-67: get_cached_result has run in its thread
report_probe ==
    /\ run.pc = "probe"
    /\ run' = AfterProbe(run, get_cached_result(cache_db, run.url), "acquire")
    /\ UNCHANGED cache_db
    /\ ReportOnlyUnchanged

\* line 71: acquire_url_lock has returned
report_acquire(was_first) ==
    /\ run.pc = "acquire"
    /\ run' = [run EXCEPT !.pc = IF ~was_first /\ ~run.no_cache THEN "reprobe"
                                 ELSE "lighthouse"]
    /\ UNCHANGED cache_db
    /\ ReportOnlyUnchanged

\* lines 74-78: the probe of an invocation that had to wait
report_reprobe ==
    /\ run.pc = "reprobe"
    /\ run' = AfterProbe(run, get_cached_result(cache_db, run.url), "lighthouse")
    /\ UNCHANGED cache_db
    /\ ReportOnlyUnchanged

\* lines 110-146: run_lighthouse_parallel has returned a report or raised (an
\* AuditError when both audits failed, anything when a browser did not launch)
report_lighthouse(mobile, desktop, raises) ==
    /\ run.pc = "lighthouse"
    /\ run' = IF raises \/ lighthouse_raises(mobile, desktop)
              THEN [run EXCEPT !.pc = "done", !.stage_raised = TRUE,
                               !.returned = [status |-> "Status.FAILED", url |-> run.url]]
              ELSE [run EXCEPT !.pc = "crux", !.mobile = mobile, !.desktop = desktop]
    /\ UNCHANGED cache_db
    /\ ReportOnlyUnchanged

\* lines 148-164: fetch_crux has run in its thread
report_crux(outcome) ==
    /\ run.pc = "crux"
    /\ run' = IF stage_escapes(outcome)
              THEN [run EXCEPT !.pc = "done", !.raised = TRUE]
              ELSE [run EXCEPT !.pc = "ai", !.crux = (outcome = "data")]
    /\ UNCHANGED cache_db
    /\ ReportOnlyUnchanged

\* lines 166-211: generate_ai_report has run in its thread; the report is merged
report_ai(outcome) ==
    LET ai_report == (outcome = "data")
        status == merge_status(run.mobile, run.desktop, run.crux, ai_report)
        result == [status |-> status, url |-> run.url]
    IN /\ run.pc = "ai"
       /\ run' = IF stage_escapes(outcome)
                 THEN [run EXCEPT !.pc = "done", !.raised = TRUE]
                 ELSE IF caches_result(run.no_cache, status)
                 THEN [run EXCEPT !.pc = "store", !.ai_report = ai_report, !.result = result]
                 ELSE [run EXCEPT !.pc = "done", !.ai_report = ai_report, !.result = result,
                                  !.returned = result]
       /\ UNCHANGED cache_db
       /\ ReportOnlyUnchanged

\* lines 209-216: store_result has run in its thread; return result.model_dump()
report_store(outcome) ==
    /\ run.pc = "store"
    /\ cache_db' = IF outcome = "written"
                   THEN [store_result(cache_db, run.url, run.result) EXCEPT
                            !.stored[run.url] = [result |-> run.result, at |-> cache_db.now],
                            !.op = "store_result", !.url = run.url, !.result = None]
                   ELSE cache_db
    /\ run' = IF store_escapes(outcome)
              THEN [run EXCEPT !.pc = "done", !.writes = @ + 1, !.raised = TRUE,
                               !.write_failed = TRUE]
              ELSE [run EXCEPT !.pc = "done", !.writes = @ + 1, !.returned = run.result,
                               !.write_failed = (outcome # "written")]
    /\ ReportOnlyUnchanged

NextReport ==
    \/ \E url \in URLs, no_cache \in BOOLEAN : report_call(url, no_cache)
    \/ report_probe
    \/ \E was_first \in BOOLEAN : report_acquire(was_first)
    \/ report_reprobe
    \/ \E mobile \in BOOLEAN, desktop \in BOOLEAN, raises \in BOOLEAN :
           report_lighthouse(mobile, desktop, raises)
    \/ \E outcome \in StageOutcomes : report_crux(outcome)
    \/ \E outcome \in StageOutcomes : report_ai(outcome)
    \/ \E outcome \in StoreOutcomes : report_store(outcome)
    \/ cache_tick
    \/ cache_clear_cache

SpecReport == Init /\ [][NextReport]_vars

\* ------------------------------------------------ BrowserPool on its own
\* coroutines enter and leave BrowserPool.acquire while cleanup_idle, shutdown
\* and initialize run; one action per stretch of code between two suspensions
BrowserPoolUnchanged == UNCHANGED <<coreVars, cache_db, run, ws, rated, field, stages>>

\* lifespan calls initialize()
pool_initialize ==
    /\ ~browser_pool.initialized
    /\ browser_pool.made < MaxSemaphores
    /\ browser_pool' = initialize(browser_pool)
    /\ BrowserPoolUnchanged

\* lines 188-197: initialize if needed, refuse while shutting down, take a
\* permit if there is one and go on to the lock section
scope_enter(a) ==
    LET p == initialize(browser_pool)
        sem == p.semaphore
    IN /\ browser_pool.scope[a].pc = "out"
       /\ browser_pool.initialized \/ browser_pool.made < MaxSemaphores
       /\ p.next_port < MaxInstances
       /\ browser_pool' =
            IF p.shutting_down THEN p
            ELSE IF p.semaphores[sem] > 0
            THEN AfterPermit([p EXCEPT !.semaphores[sem] = @ - 1, !.scope[a].semaphore = sem], a)
            ELSE [p EXCEPT !.scope[a].pc = "waiting", !.scope[a].semaphore = sem]
       /\ BrowserPoolUnchanged

\* the Semaphore the coroutine waits on has a permit: acquire() returns
scope_permit(a) ==
    LET sem == browser_pool.scope[a].semaphore
    IN /\ browser_pool.scope[a].pc = "waiting"
       /\ browser_pool.semaphores[sem] > 0
       /\ browser_pool.next_port < MaxInstances
       /\ browser_pool' = AfterPermit([browser_pool EXCEPT !.semaphores[sem] = @ - 1], a)
       /\ BrowserPoolUnchanged

\* _pool_lock is free again: the waiting coroutine runs its lock section
scope_lock(a) ==
    /\ browser_pool.scope[a].pc = "permitted"
    /\ browser_pool.pool_lock = ""
    /\ browser_pool.next_port < MaxInstances
    /\ browser_pool' = AfterPermit(browser_pool, a)
    /\ BrowserPoolUnchanged

\* _create_browser: chromium.launch returned, raised or timed out
scope_launched(a, launch_ok) ==
    LET p == browser_pool
        b == p.next_port
    IN /\ p.scope[a].pc = "launching"
       /\ browser_pool' =
            IF launch_ok
            THEN [p EXCEPT !.pool_lock = "", !.browsers = @ \cup {b}, !.in_use[b] = TRUE,
                           !.scope[a].pc = "holding", !.scope[a].instance = b]
            ELSE [semaphore_release([p EXCEPT !.pool_lock = ""]) EXCEPT !.scope[a] = NoScope]
       /\ BrowserPoolUnchanged

\* the body of the scope returns or raises: the finally block runs
scope_exit(a) ==
    /\ browser_pool.scope[a].pc = "holding"
    /\ browser_pool' = IF browser_pool.pool_lock = ""
                       THEN LeaveScope(browser_pool, a)
                       ELSE [browser_pool EXCEPT !.scope[a].pc = "releasing"]
    /\ BrowserPoolUnchanged

\* the finally block gets _pool_lock
scope_release(a) ==
    /\ browser_pool.scope[a].pc = "releasing"
    /\ browser_pool.pool_lock = ""
    /\ browser_pool' = LeaveScope(browser_pool, a)
    /\ BrowserPoolUnchanged

\* the task is cancelled while it is suspended inside acquire: CancelledError
\* is raised at the await it is suspended on
scope_cancel(a) ==
    LET p == browser_pool
        pc == p.scope[a].pc
    IN /\ pc \in {"waiting", "permitted", "launching", "releasing"}
       /\ browser_pool' =
            CASE pc = "waiting" -> [p EXCEPT !.scope[a] = NoScope]
              [] pc = "permitted" -> [semaphore_release(p) EXCEPT !.scope[a] = NoScope]
              [] pc = "launching" ->
                    [semaphore_release([p EXCEPT !.pool_lock = ""]) EXCEPT !.scope[a] = NoScope]
              [] pc = "releasing" -> [p EXCEPT !.scope[a].pc = "left"]
       /\ BrowserPoolUnchanged

\* cleanup_idle: the browsers idle for longer than idle_timeout are closed
pool_cleanup_idle(idle) ==
    /\ browser_pool.pool_lock = ""
    /\ idle # {}
    /\ idle \subseteq Available(browser_pool)
    /\ browser_pool' = [browser_pool EXCEPT !.browsers = @ \ idle]
    /\ BrowserPoolUnchanged

\* shutdown up to its lock section
pool_shutdown_begin ==
    /\ browser_pool.shutdown = "idle"
    /\ browser_pool.initialized
    /\ browser_pool' = IF browser_pool.pool_lock = ""
                       THEN [browser_pool EXCEPT !.shutting_down = TRUE, !.shutdown = "closing",
                                                 !.pool_lock = "shutdown"]
                       ELSE [browser_pool EXCEPT !.shutting_down = TRUE, !.shutdown = "waiting"]
    /\ BrowserPoolUnchanged

\* shutdown gets _pool_lock
pool_shutdown_lock ==
    /\ browser_pool.shutdown = "waiting"
    /\ browser_pool.pool_lock = ""
    /\ browser_pool' = [browser_pool EXCEPT !.shutdown = "closing", !.pool_lock = "shutdown"]
    /\ BrowserPoolUnchanged

\* the browsers and playwright are closed: the rest of shutdown
pool_shutdown_finish ==
    /\ browser_pool.shutdown = "closing"
    /\ browser_pool' = shutdown(browser_pool)
    /\ BrowserPoolUnchanged

\* acquire and cleanup_idle while the application runs
NextScope ==
    \/ pool_initialize
    \/ \E a \in ScopeIds : scope_enter(a)
    \/ \E a \in ScopeIds : scope_permit(a)
    \/ \E a \in ScopeIds : scope_lock(a)
    \/ \E a \in ScopeIds, launch_ok \in BOOLEAN : scope_launched(a, launch_ok)
    \/ \E a \in ScopeIds : scope_exit(a)
    \/ \E a \in ScopeIds : scope_release(a)
    \/ \E a \in ScopeIds : scope_cancel(a)
    \/ \E idle \in SUBSET InstanceIds : pool_cleanup_idle(idle)

NextBrowserPool ==
    \/ NextScope
    \/ pool_shutdown_begin
    \/ pool_shutdown_lock
    \/ pool_shutdown_finish

SpecScope == Init /\ [][NextScope]_vars

SpecBrowserPool == Init /\ [][NextBrowserPool]_vars

\* ------------------------------------------------- the ratings on their own
RatedUnchanged == UNCHANGED <<coreVars, cache_db, run, browser_pool, ws, field, stages>>

\* fetch_crux_async parses one metric of the response
crux_parse_metric(metric, p75) ==
    /\ rated' = [last |-> parse_metric(metric, p75), prev |-> rated.last]
    /\ RatedUnchanged

NextRating == \E metric \in {"lcp", "cls", "inp"} : \E p75 \in Percentiles(metric) : crux_parse_metric(metric, p75)

SpecRating == Init /\ [][NextRating]_vars

\* ------------------------------------------ one job and its progress events
\* run_audit_job with the callbacks of run_audit_async: a report from the
\* cache comes back without any callback; else each stage starts and, when it
\* brings its part, completes; when both lighthouse audits have failed the
\* failed report is returned after the second; an exception fails the job
StagesUnchanged == UNCHANGED <<coreVars, cache_db, run, browser_pool, ws, rated, field>>

\* lines 63-67 and 75-78: the report comes from the cache
stages_cache_hit ==
    /\ stages.at = 0
    /\ stages.status = PENDING
    /\ stages' = [job_complete_job(stages) EXCEPT !.at = 5]
    /\ StagesUnchanged

\* on_stage_start of the next stage; asyncio.gather starts the desktop audit
\* when the mobile audit is suspended or has failed at once
stages_start ==
    /\ stages.at < 4
    /\ stages.under_way \subseteq (IF stages.at = 1 THEN {AuditStages[1]} ELSE {})
    /\ stages.status \in {PENDING, RUNNING}
    /\ stages' = [job_update_stage(stages, AuditStages[stages.at + 1]) EXCEPT
                     !.at = @ + 1, !.under_way = @ \cup {AuditStages[stages.at + 1]}]
    /\ StagesUnchanged

\* a stage is over: on_stage_complete when it brought its part; a mobile audit
\* that succeeds has been suspended, so that the desktop audit has started
stages_end(stage, ok) ==
    /\ stage \in stages.under_way
    /\ (ok /\ stage = AuditStages[1]) => stages.at >= 2
    /\ stages' = [(IF ok THEN job_complete_stage(stages, stage) ELSE stages)
                     EXCEPT !.under_way = @ \ {stage}]
    /\ StagesUnchanged

\* run_audit_async returns its report, after the last stage or after both
\* lighthouse audits have failed, or an exception leaves it: complete_job or
\* fail_job
stages_finish(raises) ==
    /\ stages.under_way = {}
    /\ stages.at <= 4
    /\ \/ stages.at = 4
       \/ stages.at = 2 /\ stages.completed_stages = <<>>
       \/ raises
    /\ stages' = [(IF raises THEN job_fail_job(stages) ELSE job_complete_job(stages))
                     EXCEPT !.at = 5]
    /\ StagesUnchanged

NextStages ==
    \/ stages_cache_hit
    \/ stages_start
    \/ \E stage \in stages.under_way, ok \in BOOLEAN : stages_end(stage, ok)
    \/ \E raises \in BOOLEAN : stages_finish(raises)

SpecStages == Init /\ [][NextStages]_vars

\* ------------------------------------------- the field-data stage on its own
\* audits reach their CrUX stage one after the other; the stage calls
\* fetch_crux_async, whose body asks the PSI breaker, sends the request and
\* records the outcome, and which is retried on APIError
FieldUnchanged ==
    UNCHANGED <<config, job_store, next_job, active_count, semaphore, queue, clock, worker,
                response, pool_semaphore, url_locks, cache, inv, released_foreign,
                cache_db, run, browser_pool, ws, rated, stages>>

\* the first get_psi_circuit_breaker call makes the breaker of the registry
get_psi_circuit_breaker ==
    /\ breaker.config # PsiConfig
    /\ breaker' = [NewBreaker EXCEPT !.config = PsiConfig, !.now = breaker.now]
    /\ field' = NoField
    /\ FieldUnchanged

\* run_audit_async, lines 148-153: the stage starts
crux_stage_start ==
    /\ breaker.config = PsiConfig
    /\ field.pc \in {"idle", "done"}
    /\ field' = [NoField EXCEPT !.pc = "fetch", !.recovered = field.recovered]
    /\ UNCHANGED breaker
    /\ FieldUnchanged

\* one run of the body of fetch_crux_async and what the stage makes of it:
\* refused by the breaker it returns None; else the request is sent and
\* answers with data ("data"), without field data ("None") or fails
\* ("APIError"), which is retried until the third attempt has failed
fetch_crux_async(http) ==
    LET asked == can_execute(breaker)
        sent == [field EXCEPT !.attempt = @ + 1, !.requests = @ + 1]
    IN /\ field.pc = "fetch"
       /\ (http = "APIError") =>
              (~field.recovered /\ breaker.now + RecoveryTimeout <= MaxBreakerClock
                                /\ breaker.failure_count < MaxFailures)
       /\ IF asked.result = "false"
          THEN /\ breaker' = asked
               /\ field' = [field EXCEPT !.pc = "done", !.attempt = @ + 1,
                                          !.denied = (field.attempt = 0), !.crux = "None"]
          ELSE IF http # "APIError"
          THEN /\ breaker' = record_success(asked)
               /\ field' = [sent EXCEPT !.pc = "done", !.crux = http]
          ELSE /\ breaker' = record_failure(asked)
               /\ field' = IF sent.attempt < StopAfterAttempt
                           THEN sent
                           ELSE [sent EXCEPT !.pc = "done", !.crux = "None",
                                             !.error = "CrUX unexpected error: RetryError"]
       /\ FieldUnchanged

\* the PSI API works again: from now on every request is answered
psi_api_recovers ==
    /\ breaker.config = PsiConfig
    /\ ~field.recovered
    /\ field' = [field EXCEPT !.recovered = TRUE]
    /\ UNCHANGED breaker
    /\ FieldUnchanged

NextField ==
    \/ get_psi_circuit_breaker
    \/ crux_stage_start
    \/ \E http \in {"data", "None", "APIError"} : fetch_crux_async(http)
    \/ psi_api_recovers
    \/ breaker_tick

SpecField == Init /\ [][NextField]_vars

\* time passes, audits keep reaching their field-data stage, and every request
\* sent is answered or times out
FieldFairness ==
    /\ WF_vars(breaker_tick)
    /\ WF_vars(crux_stage_start)
    /\ WF_vars(\E http \in {"data", "None", "APIError"} : fetch_crux_async(http))

FairField == SpecField /\ FieldFairness

\* --------------------------------------------- WebSocketManager on its own
\* the registry emits events, endpoints connect and disconnect their
\* websockets, and the event loop runs the _enqueue_async coroutines and the
\* _process_broadcasts task; one action per stretch of code between two
\* suspensions. A coroutine that asks for the manager's threading.Lock while
\* broadcast() holds it across a send blocks the loop thread for good.
WsUnchanged == UNCHANGED <<coreVars, cache_db, run, browser_pool, rated, field, stages>>

\* broadcast() is running between its last send and its return: the loop
\* thread is inside it, nothing else runs on the loop
InBroadcast == ws.lock /\ ws.sending.todo = <<>>

\* JobStore emits its next event for the job
ws_enqueue_broadcast(job_id, running_loop) ==
    /\ ~ws.frozen
    /\ running_loop => ~InBroadcast
    /\ ws.emitted < MaxEvents
    /\ ws' = [enqueue_broadcast(ws, [job |-> job_id, n |-> ws.emitted + 1], running_loop)
                 EXCEPT !.emitted = @ + 1]
    /\ WsUnchanged

\* the loop runs the callback or the task step at the head of its ready queue
ws_loop_run ==
    LET item == Head(ws.ready)
        rest == [ws EXCEPT !.ready = Tail(@)]
    IN /\ ~ws.frozen
       /\ ~InBroadcast
       /\ ws.ready # <<>>
       /\ (item.kind = "task" /\ needs_broadcast_task(ws))
              => Cardinality({t \in TaskIds : ws.tasks[t] # "none"}) < MaxTasks
       /\ ws' = IF item.kind = "callback"
                THEN [rest EXCEPT !.ready = Append(@, [kind |-> "task", event |-> item.event])]
                ELSE enqueue_async(rest, item.event)
       /\ WsUnchanged

\* audit_websocket: accept, then connect(job_id, websocket); the websockets of
\* a job are numbered in the order of their connect calls
ws_connect(job_id, k) ==
    /\ ~ws.frozen
    /\ ~InBroadcast
    /\ ws.sink[k].state = "new"
    /\ job_id = SinkJob(k)
    /\ \A i \in 1..(k - 1) : SinkJob(i) = job_id => ws.sink[i].state # "new"
    /\ ws' = IF ws.lock
             THEN [ws EXCEPT !.frozen = TRUE]
             ELSE [connect(ws, job_id, k) EXCEPT
                      !.sink[k] = [state |-> "connected", job |-> job_id, since |-> ws.emitted]]
    /\ WsUnchanged

\* audit_websocket: the client went away, finally disconnect(job_id, websocket);
\* the websocket is closed and what it was sent is no longer of interest
ws_disconnect(k) ==
    /\ ~ws.frozen
    /\ ~InBroadcast
    /\ ws.sink[k].state = "connected"
    /\ ws' = IF ws.lock
             THEN [ws EXCEPT !.frozen = TRUE]
             ELSE [disconnect(ws, ws.sink[k].job, k) EXCEPT
                      !.sink[k] = [NoSink EXCEPT !.state = "gone"], !.sent[k] = <<>>]
    /\ WsUnchanged

\* _process_broadcasts: get() returns an event and broadcast() takes the lock
\* and starts on the job's list
ws_broadcast_begin(t) ==
    LET event == queue_get(ws.broadcast_queue)
    IN /\ ~ws.frozen
       /\ ~InBroadcast
       /\ ws.tasks[t] = "waiting"
       /\ ws.broadcast_queue # <<>>
       /\ ws' = IF ws.lock
                THEN [ws EXCEPT !.frozen = TRUE]
                ELSE [ws EXCEPT !.broadcast_queue = SeqWithout(@, {event}),
                                !.tasks[t] = "sending", !.lock = TRUE,
                                !.sending = [task |-> t, event |-> event,
                                             todo |-> ws.connections[event.job],
                                             disconnected |-> {}]]
       /\ WsUnchanged

\* await websocket.send_json(message) returns or raises
ws_send(ok) ==
    LET k == Head(ws.sending.todo)
    IN /\ ~ws.frozen
       /\ ws.sending.todo # <<>>
       /\ ws' = [ws EXCEPT !.sending.todo = Tail(@),
                           !.sending.disconnected = IF ok THEN @ ELSE @ \cup {k},
                           !.sent[k] = IF ok THEN Append(@, ws.sending.event) ELSE @]
       /\ WsUnchanged

\* the loop over the list is over: the failed websockets are removed
ws_broadcast_end ==
    LET b == ws.sending
    IN /\ ~ws.frozen
       /\ b.task # 0
       /\ b.todo = <<>>
       /\ ws' = [ws EXCEPT !.connections =
                               remove_disconnected(ws.connections, b.event.job, b.disconnected),
                           !.lock = FALSE, !.tasks[b.task] = "waiting",
                           !.sending = NoSending]
       /\ WsUnchanged

\* wait_for(get(), timeout=1.0) times out on the empty queue: the task ends
ws_timeout(t) ==
    /\ ~ws.frozen
    /\ ~InBroadcast
    /\ ws.tasks[t] = "waiting"
    /\ ws.broadcast_queue = <<>>
    /\ ws' = [ws EXCEPT !.tasks[t] = "done"]
    /\ WsUnchanged

\* the websockets of the scenario of ordering: one fewer than there are
OrderSinkIds == 1..(MaxSinks - 1)

\* ordering and late subscribers: MaxEvents events, the websockets of
\* OrderSinkIds
NextWs ==
    \/ \E job_id \in WsJobs, running_loop \in BOOLEAN : ws_enqueue_broadcast(job_id, running_loop)
    \/ ws_loop_run
    \/ \E job_id \in WsJobs, k \in OrderSinkIds : ws_connect(job_id, k)
    \/ \E k \in OrderSinkIds : ws_disconnect(k)
    \/ \E t \in TaskIds : ws_broadcast_begin(t)
    \/ \E ok \in BOOLEAN : ws_send(ok)
    \/ ws_broadcast_end
    \/ \E t \in TaskIds : ws_timeout(t)

SpecWs == Init /\ [][NextWs]_vars

\* failed sends: every websocket of SinkIds, one event fewer than MaxEvents
NextSubscribers ==
    \/ \E job_id \in WsJobs, running_loop \in BOOLEAN :
           ws.emitted < MaxEvents - 1 /\ ws_enqueue_broadcast(job_id, running_loop)
    \/ ws_loop_run
    \/ \E job_id \in WsJobs, k \in SinkIds : ws_connect(job_id, k)
    \/ \E k \in SinkIds : ws_disconnect(k)
    \/ \E t \in TaskIds : ws_broadcast_begin(t)
    \/ \E ok \in BOOLEAN : ws_send(ok)
    \/ ws_broadcast_end
    \/ \E t \in TaskIds : ws_timeout(t)

SpecSubscribers == Init /\ [][NextSubscribers]_vars

\* ------------------------------------------------------------------ claims
ActiveJobs == {id \in JobIds : job_store.jobs[id].status \in {PENDING, RUNNING}}

RunningWorkers == {id \in JobIds : worker[id] \in {"started", "first", "both", "running"}}

\* C1: every job accepted by create_audit (Pending or Queued) eventually
\* reaches a terminal status, Completed or Failed.
C1_AcceptedEventuallyTerminal ==
    \A id \in JobIds :
        (job_store.jobs[id].status \in {PENDING, QUEUED, RUNNING})
            ~> (job_store.jobs[id].status \in {COMPLETED, FAILED})

\* C2: whenever control is back at the event loop, the number of registry jobs
\* with status Pending or Running equals the limiter's active count.
C2_ActiveJobsEqualActiveCount == Cardinality(ActiveJobs) = active_count

\* C4: every slot granted by try_acquire is released on every exit path of the
\* worker and of process_next_queued_job, so when no worker is running the
\* active count is 0.
C4_NoWorkerNoSlot == (RunningWorkers = {}) => active_count = 0

\* C5: every job with status Queued has exactly one queue row with its job id,
\* and that row is pending.
C5_QueuedHasOnePendingRow ==
    \A id \in JobIds :
        job_store.jobs[id].status = QUEUED =>
            /\ Cardinality({r \in queue.rows : r.job_id = id}) = 1
            /\ \A r \in queue.rows : r.job_id = id => r.status = "pending"

\* a job is queued behind its pending row while an earlier queued job was
\* cancelled by the user
C5_Witness ==
    \E a, b \in JobIds :
        /\ job_store.jobs[a].status = QUEUED
        /\ \E r \in queue.rows : r.job_id = a /\ r.status = "pending"
        /\ job_store.jobs[b].error = "Cancelled by user"
        /\ \E r \in queue.rows : r.job_id = b /\ r.status = "cancelled"

\* C8: a job id is in a client's active set only while the job is in the
\* registry with a non-terminal status.
C8_ActiveSetOnlyLiveJobs ==
    \A ip \in IPs : \A id \in job_store.ip_limits[ip] :
        job_store.jobs[id].status \in {PENDING, QUEUED, RUNNING}

\* C3: the limiter's active count stays within 0..max_concurrent under any
\* interleaving of try_acquire, acquire, release and release_async.
C3_ActiveCountWithinLimit == active_count >= 0 /\ active_count <= config.max_concurrent

\* C6: the number of pending queue rows never exceeds max_size after any
\* sequence of enqueue, dequeue, cancel, remove, cleanup_stale and
\* requeue_processing.
C6_PendingWithinMaxSize == PendingCount(queue) <= config.max_queue_size

\* C7: no client IP ever has more than max_jobs_per_ip job ids in its active
\* set, and a submission made while the client has max_jobs_per_ip active jobs
\* is answered 429 without minting a job.
C7_QuotaRespected ==
    /\ \A ip \in IPs : Cardinality(job_store.ip_limits[ip]) <= max_jobs_per_ip
    /\ response.code = 429 =>
           \E ip \in IPs : Cardinality(job_store.ip_limits[ip]) = max_jobs_per_ip

\* the sixth submission of a client whose five jobs are all still active was
\* rejected with 429
C7_Witness ==
    /\ response.code = 429
    /\ \E ip \in IPs :
           /\ Cardinality(job_store.ip_limits[ip]) = max_jobs_per_ip
           /\ \A id \in job_store.ip_limits[ip] : job_store.jobs[id].status = PENDING

\* C9: at most one invocation at a time is between acquiring and releasing
\* the URL lock of a given url, and release_url_lock never releases a Lock
\* that a different invocation holds.
C9_OneHolderPerUrl ==
    /\ \A i, j \in InvIds :
           (i # j /\ HoldsUrlLock(i) /\ HoldsUrlLock(j)) => inv[i].url # inv[j].url
    /\ ~released_foreign

\* C10: among concurrent invocations for one url with caching enabled, once
\* one of them has stored its report no other one runs the lighthouse stage:
\* each returns the stored report.
C10_OthersServedFromCache ==
    \A i \in InvIds : ~inv[i].ran_despite_cache

\* C11: a job that is Completed or Failed keeps that status for as long as it
\* is in the registry (expiry may only remove it): no step moves it to Pending,
\* Queued or Running, and no worker is ever started for a cancelled job.
C11_TerminalIsFinal ==
    [][\A id \in JobIds :
          job_store.jobs[id].status \in {COMPLETED, FAILED} =>
              /\ job_store'.jobs[id].status \in {job_store.jobs[id].status, "none"}
              /\ job_store.jobs[id].error = "Cancelled by user" => worker'[id] = "none"]_vars

\* a queued job was cancelled, and afterwards the drain started a later job
\* from the queue while the first one had completed
C11_Witness ==
    \E a, b, c \in JobIds :
        /\ a < b /\ b < c
        /\ job_store.jobs[a].status = COMPLETED
        /\ job_store.jobs[b].status = FAILED
        /\ job_store.jobs[b].error = "Cancelled by user"
        /\ worker[b] = "none"
        /\ job_store.jobs[c].status \in {PENDING, RUNNING}
        /\ worker[c] \in {"started", "running"}

C13_CancelOnlyQueued ==
    [][\A id \in JobIds : cancel_audit(id) =>
          LET job == job_store.jobs[id]
          IN /\ active_count' = active_count /\ worker' = worker
             /\ job = NoJob =>
                    response'.code = 404 /\ job_store' = job_store /\ queue' = queue
             /\ job # NoJob /\ job.status # QUEUED =>
                    response'.code = 400 /\ job_store' = job_store /\ queue' = queue
             /\ job.status = QUEUED =>
                    /\ response'.code = 200 /\ response'.status = "cancelled"
                    /\ job_store'.jobs[id].status = FAILED
                    /\ job_store'.jobs[id].error = "Cancelled by user"
                    /\ \A o \in JobIds \ {id} : job_store'.jobs[o] = job_store.jobs[o]
                    /\ queue'.rows =
                           {IF r.job_id = id THEN [r EXCEPT !.status = "cancelled"] ELSE r
                            : r \in queue.rows}
                    /\ \E r \in queue.rows : r.job_id = id /\ r.status = "pending"]_vars

\* a queued job has just been cancelled while another audit holds the slot
C13_Witness ==
    /\ response.op = "cancel" /\ response.code = 200 /\ response.status = "cancelled"
    /\ job_store.jobs[response.job].status = FAILED
    /\ job_store.jobs[response.job].error = "Cancelled by user"
    /\ \E r \in queue.rows : r.job_id = response.job /\ r.status = "cancelled"
    /\ active_count = 1
    /\ \E o \in JobIds : job_store.jobs[o].status = RUNNING /\ worker[o] = "running"

\* C14: requeue_processing turns every processing row into a pending row,
\* returns the number K of rows it changed and leaves every pending and
\* cancelled row, and every row's id, job id and created_at, as they were.
C14_RequeueProcessing ==
    [][queue_requeue_processing =>
          LET K == Cardinality(Rows(queue, "processing"))
          IN /\ response'.position = K
             /\ Rows(queue', "processing") = {}
             /\ \A r \in Rows(queue, "processing") :
                    [r EXCEPT !.status = "pending"] \in queue'.rows
             /\ \A r \in queue.rows : r.status # "processing" => r \in queue'.rows
             /\ Cardinality(queue'.rows) = Cardinality(queue.rows)
             /\ PendingCount(queue') = PendingCount(queue) + K
             /\ queue'.seq = queue.seq]_vars

\* requeue_processing has just returned 1 on a queue that also held a
\* cancelled row and a pending row
C14_Witness ==
    /\ response.op = "requeue_processing" /\ response.position = 1
    /\ Rows(queue, "cancelled") # {}
    /\ PendingCount(queue) = 2
    /\ Rows(queue, "processing") = {}

\* C15: every queue entry that is pending after a restart (it was pending or
\* processing when the process died) eventually has its audit started.
C15_RecoveredEventuallyRun ==
    \A id \in JobIds :
        (worker[id] = "recovered") ~> (worker[id] \in {"started", "running", "done"})

C17_PositionIsRank ==
    response.op = "get_position" =>
        IF \E r \in Rows(queue, "pending") : r.job_id = response.job
        THEN \E r \in Rows(queue, "pending") :
                 /\ r.job_id = response.job
                 /\ response.position =
                        1 + Cardinality({o \in Rows(queue, "pending") : o.id < r.id})
        ELSE response.position = 0

\* C18: failure_count is the number of failures recorded in a row: in Closed
\* each record_failure adds one and nothing else raises it, and every
\* record_success sets it to 0. A Closed breaker becomes Open exactly on the
\* record_failure that brings the count to failure_threshold, so a Closed
\* breaker always has fewer than failure_threshold failures in a row.
C18_OpensAtThreshold ==
    [][/\ breaker'.op = "record_success" => breaker'.failure_count = 0
       /\ breaker.state = CLOSED /\ breaker'.op = "record_failure" =>
              /\ breaker'.failure_count = breaker.failure_count + 1
              /\ breaker'.state = OPEN <=>
                     breaker'.failure_count = BreakerConfig.failure_threshold
              /\ breaker'.state \in {OPEN, CLOSED}
       /\ breaker.state = CLOSED /\ breaker'.op # "record_failure" =>
              /\ breaker'.state = CLOSED
              /\ breaker'.failure_count \in {0, breaker.failure_count}
       /\ breaker'.state = CLOSED =>
              breaker'.failure_count < BreakerConfig.failure_threshold]_vars

\* the breaker has just opened on the failure that completed the threshold
C18_Witness ==
    /\ breaker.state = OPEN
    /\ breaker.op = "record_failure"
    /\ breaker.failure_count = BreakerConfig.failure_threshold
    /\ breaker.last_failure_time = breaker.now
    /\ breaker.now > 0

\* C19: while the breaker is Open and less than recovery_timeout has passed
\* since the last recorded failure, can_execute returns false and the breaker
\* stays Open (also under a state query); once recovery_timeout has passed, the
\* next can_execute or state query moves it to HalfOpen, and such a can_execute
\* returns true with half_open_calls = 1. In HalfOpen can_execute returns true
\* exactly while half_open_calls is below half_open_max_calls, counting the call.
C19_OpenUntilRecoveryTimeout ==
    [][LET waited == breaker.now - breaker.last_failure_time
                         >= BreakerConfig.recovery_timeout
       IN /\ breaker.state = OPEN /\ breaker'.op \in {"can_execute", "state"} =>
                 IF waited
                 THEN /\ breaker'.state = HALF_OPEN
                      /\ breaker'.success_count = 0
                      /\ breaker'.op = "can_execute" =>
                             breaker'.result = "true" /\ breaker'.half_open_calls = 1
                      /\ breaker'.op = "state" =>
                             breaker'.result = HALF_OPEN /\ breaker'.half_open_calls = 0
                 ELSE /\ breaker'.state = OPEN
                      /\ breaker'.op = "can_execute" => breaker'.result = "false"
          /\ breaker.state = OPEN /\ breaker'.state = HALF_OPEN =>
                 waited /\ breaker'.op \in {"can_execute", "state"}
          /\ breaker.state = HALF_OPEN /\ breaker'.op = "can_execute" =>
                 /\ breaker'.state = HALF_OPEN
                 /\ breaker'.result = "true" <=>
                        breaker.half_open_calls < BreakerConfig.half_open_max_calls
                 /\ breaker'.half_open_calls =
                        IF breaker'.result = "true" THEN breaker.half_open_calls + 1
                        ELSE breaker.half_open_calls]_vars

\* the first can_execute after recovery_timeout has just been let through
C19_Witness ==
    /\ breaker.state = HALF_OPEN
    /\ breaker.op = "can_execute" /\ breaker.result = "true"
    /\ breaker.half_open_calls = 1
    /\ breaker.now - breaker.last_failure_time >= BreakerConfig.recovery_timeout
    /\ breaker.failure_count >= BreakerConfig.failure_threshold

\* C20: success_count is the number of successes recorded since the breaker
\* entered HalfOpen. In HalfOpen a record_failure opens the breaker at once; a
\* record_success closes it exactly when it brings success_count to
\* success_threshold, and closing resets failure_count and half_open_calls;
\* any other call except reset leaves the breaker HalfOpen.
C20_HalfOpenOutcomes ==
    [][/\ breaker.state # HALF_OPEN /\ breaker'.state = HALF_OPEN =>
              breaker'.success_count = 0
       /\ breaker.state = HALF_OPEN /\ breaker'.op = "record_failure" =>
              breaker'.state = OPEN
       /\ breaker.state = HALF_OPEN /\ breaker'.op = "record_success" =>
              /\ breaker'.success_count = breaker.success_count + 1
              /\ breaker'.state = CLOSED <=>
                     breaker'.success_count = BreakerConfig.success_threshold
              /\ breaker'.state \in {CLOSED, HALF_OPEN}
              /\ breaker'.state = CLOSED =>
                     breaker'.failure_count = 0 /\ breaker'.half_open_calls = 0
       /\ breaker.state = HALF_OPEN
              /\ breaker'.op \notin {"record_failure", "record_success", "reset"} =>
              /\ breaker'.state = HALF_OPEN
              /\ breaker'.success_count = breaker.success_count
       /\ breaker'.state = HALF_OPEN =>
              breaker'.success_count < BreakerConfig.success_threshold]_vars

\* the breaker has just closed on the success that completed success_threshold
C20_Witness ==
    /\ breaker.state = CLOSED
    /\ breaker.op = "record_success"
    /\ breaker.success_count = BreakerConfig.success_threshold
    /\ breaker.failure_count = 0 /\ breaker.half_open_calls = 0
    /\ breaker.last_failure_time # -1

\* C21: get_cached_result(url) returns what the last store_result for the URL
\* stored while less than ttl_seconds have passed since that store and the
\* cache was not cleared after it, and None otherwise; a later store replaces
\* the earlier one and restarts the ttl; the other URLs' entries do not matter.
C21_RoundTripWithinTtl ==
    cache_db.op = "get_cached_result" =>
        LET last == cache_db.stored[cache_db.url]
        IN IF last # NoStore /\ cache_db.now - last.at < CacheTtl
           THEN cache_db.result # None /\ SameDict(cache_db.result, last.result)
           ELSE cache_db.result = None

\* a read that returns the second report stored for u1, one second after that
\* store, while the entry of u2 has expired
C21_Witness ==
    /\ cache_db.op = "get_cached_result"
    /\ cache_db.url = "u1"
    /\ cache_db.result # None
    /\ cache_db.table[get_url_hash("u1")].created_at > 0
    /\ cache_db.now > cache_db.table[get_url_hash("u1")].created_at
    /\ cache_db.stored["u2"] # NoStore
    /\ cache_db.now - cache_db.stored["u2"].at >= CacheTtl
    /\ cache_db.stored["u2"].result.status # cache_db.stored["u1"].result.status

\* C22: run_audit_async hands a report to store_result only when its status is
\* success or partial and no_cache is false: a failed report is never stored,
\* a run with no_cache neither reads nor writes the cache, and a run whose
\* cache write failed returns the merged report all the same, without raising.
C22_StoresOnlySuccessOrPartial ==
    /\ run.no_cache => run.reads = 0 /\ run.writes = 0
    /\ run.writes > 0 => run.result.status \in {"Status.SUCCESS", "Status.PARTIAL"}
    /\ (run.pc = "done" /\ ~run.from_cache /\ run.returned.status = "Status.FAILED")
           => run.writes = 0
    /\ \A h \in UrlHashes :
           cache_db.table[h] # NoCacheRow => json_loads(cache_db.table[h].result_json).status # FAILED
    /\ (run.pc = "done" /\ run.write_failed)
           => ~run.raised /\ run.returned = run.result /\ run.result # None

\* a run whose cache write failed has returned its partial report, and a run
\* before it had stored a report for the other URL
C22_Witness ==
    /\ run.pc = "done"
    /\ run.write_failed
    /\ run.returned.status = "Status.PARTIAL"
    /\ cache_db.table[get_url_hash(run.url)] = NoCacheRow
    /\ \E h \in UrlHashes : cache_db.table[h] # NoCacheRow

\* C23: a run not served from the cache returns failed exactly when both
\* lighthouse audits failed or the lighthouse stage raised, success exactly
\* when mobile, desktop, field data and narrative are all present, and partial
\* otherwise; it never raises.
C23_StatusOfMergedReport ==
    (run.pc = "done" /\ ~run.from_cache) =>
        /\ ~run.raised
        /\ (run.returned.status = "Status.FAILED") <=> run.stage_raised
        /\ (run.returned.status = "Status.SUCCESS")
               <=> (run.mobile /\ run.desktop /\ run.crux /\ run.ai_report)
        /\ (run.returned.status = "Status.PARTIAL")
               <=> (~run.stage_raised
                    /\ ~(run.mobile /\ run.desktop /\ run.crux /\ run.ai_report))

\* a run with both lighthouse audits and the narrative but no field data has
\* returned a partial report
C23_Witness ==
    /\ run.pc = "done"
    /\ ~run.from_cache
    /\ run.mobile /\ run.desktop /\ ~run.crux /\ run.ai_report
    /\ run.returned.status = "Status.PARTIAL"

\* coroutines inside the body of an acquire scope
Holders == {a \in ScopeIds : browser_pool.scope[a].pc \in {"holding", "releasing"}}

\* C24: no two acquirers hold the same browser instance, and the number of
\* instances lent out never exceeds pool_size, under any interleaving of
\* acquire, release, cleanup_idle, shutdown and a later initialize.
C24_OneHolderWithinPoolSize ==
    /\ \A a, b \in Holders :
           a # b => browser_pool.scope[a].instance # browser_pool.scope[b].instance
    /\ Cardinality(Holders) <= browser_pool.pool_size

\* C25: every exit from an acquire scope marks the lent instance idle and
\* releases the pool semaphore once: when no acquirer is inside a scope, all
\* pool_size permits are free and no instance of the pool is in use.
C25_ScopeExitRestoresPool ==
    (/\ browser_pool.initialized
     /\ \A a \in ScopeIds : browser_pool.scope[a].pc \in {"out", "left"})
        => /\ browser_pool.semaphores[browser_pool.semaphore] = browser_pool.pool_size
           /\ \A b \in browser_pool.browsers : ~browser_pool.in_use[b]

\* C26: browser acquisition is deadlock-free: an audit that holds its first
\* browser and asks for the second one does not wait for ever, given that
\* every holder of two browsers eventually releases them.
C26_SecondBrowserEventually ==
    \A id \in JobIds : (worker[id] = "first") ~> (worker[id] # "first")

\* the websockets in a list
Listed(list) == {list[i] : i \in 1..Len(list)}

\* C27: when a broadcast ends in which the send to some subscribers failed,
\* exactly those subscribers leave the job's list: every other subscriber of
\* the job has been sent the event and stays subscribed, in its place, and the
\* lists of the other jobs are as they were.
C27_FailedSendRemovesOnlyThatSubscriber ==
    [][ws_broadcast_end =>
        LET b == ws.sending
            job_id == b.event.job
            others == Listed(ws.connections[job_id]) \ b.disconnected
        IN /\ Listed(ws'.connections[job_id]) = others
           /\ ws'.connections[job_id] = SeqWithout(ws.connections[job_id], b.disconnected)
           /\ \A k \in others :
                  ws.sent[k] # <<>> /\ ws.sent[k][Len(ws.sent[k])] = b.event
           /\ \A k \in b.disconnected :
                  ws.sent[k] = <<>> \/ ws.sent[k][Len(ws.sent[k])] # b.event
           /\ \A j \in WsJobs \ {job_id} : ws'.connections[j] = ws.connections[j]]_vars

\* a broadcast for j1 has ended: websocket 1, whose send failed, is off the
\* list though its endpoint has not disconnected it, websocket 3 has the event
\* and is still listed, and websocket 2 is still listed for j2
C27_Witness ==
    /\ ~ws.lock
    /\ ws.sink[1].state = "connected"
    /\ ws.connections["j1"] = <<3>>
    /\ ws.sent[3] # <<>>
    /\ ws.sent[1] = <<>>
    /\ ws.connections["j2"] = <<2>>

\* C28: every subscriber is sent the events of its job in the order of their
\* enqueue_broadcast calls, and at most one _process_broadcasts task is alive,
\* whether the events were enqueued before or after the loop was recorded and
\* whether or not the consumer task ended and was made anew in between.
C28_SentInEmissionOrder ==
    /\ \A k \in SinkIds :
           \A i, j \in 1..Len(ws.sent[k]) : i < j => ws.sent[k][i].n < ws.sent[k][j].n
    /\ Cardinality(Consumers(ws)) <= 1

\* websocket 1 has been sent two events of its job, the second one by a
\* second consumer task
C28_Witness ==
    /\ Len(ws.sent[1]) = 2
    /\ ws.sent[1][1].job = ws.sent[1][2].job
    /\ ws.tasks[2] # "none"
    /\ ws.tasks[1] = "done"

\* C29: a subscriber is only sent events emitted after it connected: no event
\* whose enqueue_broadcast call came before the connect is delivered to it.
C29_OnlyEventsAfterConnect ==
    \A k \in SinkIds :
        \A i \in 1..Len(ws.sent[k]) : ws.sent[k][i].n > ws.sink[k].since

\* the rating the thresholds give: at most lo is Good, above lo and at most hi
\* is NeedsImprovement, above hi is Poor
Rates(m, lo, hi) ==
    /\ m.rating = GOOD <=> m.p75 <= lo
    /\ m.rating = NEEDS_IMPROVEMENT <=> (m.p75 > lo /\ m.p75 <= hi)
    /\ m.rating = POOR <=> m.p75 > hi

\* C30: the rating functions are step functions with inclusive upper bounds:
\* LCP at most 2500 ms is Good, above that and at most 4000 ms (2501 included)
\* NeedsImprovement, above 4000 ms Poor; INP likewise with 200 ms and 500 ms;
\* CLS likewise with 0.1 and 0.25; and two calls on the same metric and value
\* give the same rating.
C30_RatingSteps ==
    LET m == rated.last
    IN /\ m.metric = "lcp" => Rates(m, 2500 * Scale, 4000 * Scale)
       /\ (m.metric = "lcp" /\ m.p75 = 2501 * Scale) => m.rating = NEEDS_IMPROVEMENT
       /\ m.metric = "inp" => Rates(m, 200 * Scale, 500 * Scale)
       /\ m.metric = "cls" => Rates(m, Scale \div 10, Scale \div 4)
       /\ m.metric # "none" => m.rating \in {GOOD, NEEDS_IMPROVEMENT, POOR}
       /\ (rated.prev.metric = m.metric /\ rated.prev.p75 = m.p75)
              => rated.prev.rating = m.rating

\* an LCP of exactly 2500 ms has been rated twice, Good both times
C30_Witness ==
    /\ rated.last = [metric |-> "lcp", p75 |-> 2500 * Scale, rating |-> GOOD]
    /\ rated.prev = rated.last

\* C31: no lock but the URL lock is held while a coroutine is suspended at an
\* await: in particular the manager's lock is not held while broadcast waits
\* for a send to a subscriber.
C31_NoLockAcrossAwait ==
    ~(ws.lock /\ ws.sending.todo # <<>>)

\* C32: when the PSI breaker refuses the call of the CrUX stage, the stage ends
\* without an HTTP request and with an error string recorded for it.
C32_DeniedSkipsWithError ==
    (field.pc = "done" /\ field.denied) => (field.requests = 0 /\ field.error # "None")

\* C33: a get_cached_result that hit a storage error or an undecodable stored
\* value has returned None and has reset the initialized flag, so that the next
\* store_result makes the schema anew before it writes.
C33_FailedReadResetsInitFlag ==
    (cache_db.op = "get_cached_result" /\ cache_db.failed)
        => (cache_db.result = None /\ ~cache_db.cache_initialized)

\* C34: every progress event of a job carries floor(completed stages / 4 * 100)
\* as counted when it was emitted, whichever of update_stage, complete_stage,
\* complete_job and fail_job emitted it, and the values never decrease.
C34_ProgressIsShareOfStages ==
    /\ \A i \in 1..Len(stages.events) :
           stages.events[i].progress = (stages.events[i].completed * 100) \div 4
    /\ \A i, j \in 1..Len(stages.events) :
           i < j => stages.events[i].progress <= stages.events[j].progress

\* C35: an invocation of run_audit_async that has finished holds no URL lock,
\* whichever way it left (cache hit after waiting, failed lighthouse, merged
\* report, exception, cancellation); an invocation that returns from the first
\* cache probe leaves the URL locks as they are; and a url none of whose
\* invocations is in progress has its lock unheld.
C35_UrlLockReleased ==
    /\ [](\A i \in InvIds :
             inv[i].pc = "done" =>
                 \A l \in 1..MaxLocks : ~(url_locks.objs[l].locked /\ url_locks.objs[l].holder = i))
    /\ [](\A u \in URLs :
             (\A i \in InvIds : inv[i].url = u => inv[i].pc \in {"idle", "done"}) =>
                 (url_locks.locks[u] = 0 \/ ~url_locks.objs[url_locks.locks[u]].locked))
    /\ [][\A i \in InvIds :
             (inv[i].pc = "probe" /\ inv'[i].pc = "done") => url_locks' = url_locks]_vars

\* three invocations for one url have finished: one merged and stored its
\* report, one had waited and returned the stored report, one was cancelled
\* inside the try block; the lock of the url exists and is unheld
C35_Witness ==
    \E i, j, k \in InvIds :
        /\ inv[i].url = inv[j].url /\ inv[j].url = inv[k].url
        /\ inv[i].pc = "done" /\ inv[i].result = i
        /\ inv[j].pc = "done" /\ inv[j].lock # 0 /\ inv[j].result = i
        /\ inv[k].pc = "done" /\ inv[k].lock # 0 /\ inv[k].result = 0 - k
        /\ url_locks.locks[inv[i].url] # 0
        /\ ~url_locks.objs[url_locks.locks[inv[i].url]].locked

\* the pending queue entries whose job is in the registry
LivePending == {r \in Rows(queue, "pending") : Exists(job_store, r.job_id)}

ShutdownCalled ==
    \/ browser_pool.shutdown # "idle"
    \/ browser_pool.shutting_down
    \/ browser_pool.made >= 1 /\ ~browser_pool.initialized
    \/ browser_pool.made >= 2

\* C37: once shutdown has been called on the browser pool, a coroutine that
\* enters acquire does not come out of it with a browser.
C37_NoBrowserAfterShutdown ==
    [][ShutdownCalled =>
           \A a \in ScopeIds :
               browser_pool.scope[a].pc = "out" => browser_pool'.scope[a].pc # "holding"]_vars

\* C38: the field-data breaker (failure_threshold 3, half_open_max_calls 1,
\* success_threshold 2), once it has opened and the API answers every request
\* again, comes back to Closed as long as audits keep calling it.
C38_OpenedBreakerCloses ==
    (breaker.config = PsiConfig /\ breaker.state = OPEN /\ field.recovered)
        ~> (breaker.state = CLOSED)

\* C39: the loop thread never waits for the manager's lock while the
\* coroutine that holds it is suspended on the same loop: connect and
\* disconnect called during a broadcast complete.
C39_LoopNeverBlocked == ~ws.frozen

\* C40: a job whose worker was started has no queue entry, a worker is only
\* ever started for a job that had none yet, and one step starts at most one
\* worker: no job-id gets a second worker.
C40_OneWorkerPerJob ==
    /\ [](\A id \in JobIds : worker[id] # "none" => \A r \in queue.rows : r.job_id # id)
    /\ [][/\ \A id \in JobIds :
                (worker'[id] = "started" /\ worker[id] # "started") => worker[id] = "none"
          /\ Cardinality({id \in JobIds : worker'[id] # "none" /\ worker[id] = "none"}) <= 1]_vars

\* a job started by create_audit and a job that had been queued and was
\* started by the drain have both run to their end, and the queue is empty
C40_Witness ==
    \E a, c \in JobIds :
        /\ a < c
        /\ worker[a] = "done" /\ job_store.jobs[a].status = COMPLETED
        /\ response = Response("create", 200, c, QUEUED, response.position)
        /\ worker[c] = "done" /\ job_store.jobs[c].status = COMPLETED
        /\ queue.rows = {}
        /\ active_count = 0

====
